---- MODULE Spec2Model ----
(***************************************************************************)
(* Model of the analyzer service's project traversal orchestrator          *)
(* (TreeParser, tree_parser.py) and cross-file call resolver               *)
(* (CallResolver, resolve_calls.py).                                       *)
(*                                                                         *)
(* A path is the sequence of its components below "/"; a component (a file *)
(* or directory name) is a sequence of string tokens: <<stem>> or          *)
(* <<stem, suffix>>.  Symbol names and file texts are sequences of         *)
(* one-character strings, so that substring containment is computed.       *)
(* uuid4() is modelled as a fresh counter (ids never collide).             *)
(***************************************************************************)
EXTENDS Integers, Sequences, FiniteSets, TLC

VARIABLES
    fs,               \* the project tree on disk (input; does not change during a run)
    pc,               \* position of traverse_tree: the loop it is in, or the wait it is in
    todo,             \* iterations of the current os.walk loop, the one under way or next first
    nodes,            \* self.nodes
    edges,            \* self.edges
    node_ids,         \* self.node_ids : str(path) -> id
    symbols,          \* self.symbols  : the (name, symbol id) items in insertion order
    total_items,      \* self.total_items
    processed_items,  \* self.processed_items
    last_percent,     \* self.last_percent
    next_id,          \* number of uuid4() calls made so far
    pushed,           \* history: percent values handed to send_progress, in order
    requests,         \* history: bulk requests posted to the store, in order
    all_nodes,        \* history: every node appended to self.nodes, in order
    all_edges,        \* history: every edge appended to self.edges, in order
    fails,            \* history: number of bulk requests that failed
    pending_full,     \* history: a file was handled with a buffer at the threshold and no request was sent since
    rs,               \* the CallResolver object and its environment
    ps,               \* the extractors' process: hash seed, the running parse call, the calls made
    ws,               \* the two edge weighting objects and the relations handed to them
    wk,               \* the WebSocketServer object, its clients and what they were sent
    prior             \* the other analysis runs of the process: the TreeParser of each thread that is not taking the next step

tvars == <<fs, pc, todo, nodes, edges, node_ids, symbols, total_items,
           processed_items, last_percent, next_id, pushed, requests,
           all_nodes, all_edges, fails, pending_full>>
vars == <<fs, pc, todo, nodes, edges, node_ids, symbols, total_items,
          processed_items, last_percent, next_id, pushed, requests,
          all_nodes, all_edges, fails, pending_full, rs, ps, ws, wk, prior>>

----------------------------------------------------------------------------
(* Bounds of the model *)

\* BULK_BATCH_SIZE is 1000 in tree_parser.py:30; the model scales the
\* threshold down so that buffers reach and exceed it on small trees.
BULK_BATCH_SIZE == 2
\* number of files directly under the root
MaxFiles == 2
\* number of bulk requests the store may fail in one run
MaxFail == 1

----------------------------------------------------------------------------
(* Program constants *)

\* tree_parser.py:15-16 with ANALYZER_EXCLUDE_DIRS unset
EXCLUDE_DIRS == {<<".git">>}

\* tree_parser.py:18-28
SUPPORTED_EXT(suffix) ==
    CASE suffix = ".py"  -> "python"
      [] suffix = ".js"  -> "javascript"
      [] suffix = ".ts"  -> "javascript"
      [] suffix = ".vue" -> "vue"
      [] suffix = ".php" -> "php"
      [] suffix = ".sh"  -> "bash"
      [] suffix = ".c"   -> "c"
      [] suffix = ".h"   -> "c"
      [] suffix = ".rs"  -> "rust"
      [] OTHER           -> "None"

\* build_registry(): the keys of self.parsers
parsers == {"python", "javascript", "rust", "c", "php", "bash", "vue", "nodejs"}

None == 0

----------------------------------------------------------------------------
(* Strings *)

\* str.lower() on the suffixes that occur in the model
Lower(s) ==
    CASE s = ".PY" -> ".py"
      [] OTHER     -> s

\* str.capitalize() on the symbol types the extractors emit
Capitalize(t) ==
    CASE t = "function"  -> "Function"
      [] t = "class"     -> "Class"
      [] t = "struct"    -> "Struct"
      [] t = "enum"      -> "Enum"
      [] t = "trait"     -> "Trait"
      [] t = "variable"  -> "Variable"
      [] t = "component" -> "Component"
      [] OTHER           -> t

\* str.lower() on the capitalized symbol types
LowerType(t) ==
    CASE t = "Function"  -> "function"
      [] t = "Class"     -> "class"
      [] t = "Struct"    -> "struct"
      [] t = "Enum"      -> "enum"
      [] t = "Trait"     -> "trait"
      [] t = "Variable"  -> "variable"
      [] t = "Component" -> "component"
      [] OTHER           -> t

\* Python's `name in content` on str: name occurs as a contiguous substring
\* (the empty string occurs in every string)
IsSubstringEq(name, content) == name = content
IsSubstring(name, content) ==
    \E i \in 0..(Len(content) - Len(name)) :
        SubSeq(content, i + 1, i + Len(name)) = name

\* pathlib: Path(filename).suffix
Suffix(name) == IF Len(name) = 2 THEN name[2] ELSE ""

\* TreeParser.detect_language
detect_language(name) == SUPPORTED_EXT(Lower(Suffix(name)))

----------------------------------------------------------------------------
(* The project tree (input) *)

Root == << <<"project">> >>
SubName == <<"sub">>
GitName == <<".git">>
SubPath == Append(Root, SubName)
GitPath == Append(Root, GitName)
Stems == <<"f1", "f2", "f3", "f4">>

Sym(t, n) == [type |-> t, name |-> n]

\* What a file is to the orchestrator: its suffix, whether open() succeeds,
\* whether parser.parse raises on it, the symbols parse returns, its text.
FileKind(ext, readable, raises, syms, content) ==
    [kind |-> "file", ext |-> ext, readable |-> readable, raises |-> raises,
     symbols |-> syms, content |-> content]

FileKinds ==
    { FileKind(".txt", TRUE, FALSE, <<>>, <<"a", "b">>),
      FileKind(".py", FALSE, FALSE, <<>>, <<"a">>),
      FileKind(".PY", TRUE, TRUE, <<Sym("function", <<"a">>)>>, <<"a">>),
      FileKind(".py", TRUE, FALSE, <<>>, <<"b", "a">>),
      FileKind(".py", TRUE, FALSE,
               <<Sym("function", <<"a">>), Sym("class", <<"a">>)>>, <<"b", "a">>),
      FileKind(".py", TRUE, FALSE,
               <<Sym("function", <<"a">>), Sym("function", <<>>),
                 Sym("class", <<"a", "b">>), Sym("function", <<"b">>)>>,
               <<"a", "b">>) }

SubFileKind == FileKind(".py", TRUE, FALSE, <<Sym("function", <<"b">>)>>, <<"b", "a">>)
GitFileKind == FileKind("", TRUE, FALSE, <<>>, <<"a", "b">>)

FileName(i, k) == IF k.ext = "" THEN <<Stems[i]>> ELSE <<Stems[i], k.ext>>

Dir(dirs, files) == [kind |-> "dir", dirs |-> dirs, files |-> files]

\* The tree with the given files under the root, optionally a sub-directory
\* holding one source file, optionally a .git directory holding one file.
MkFs(files, hasSub, hasGit) ==
    LET names == [i \in 1..Len(files) |-> FileName(i, files[i])]
        top   == Root :> Dir((IF hasSub THEN <<SubName>> ELSE <<>>)
                             \o (IF hasGit THEN <<GitName>> ELSE <<>>), names)
        leafs == [p \in {Append(Root, names[i]) : i \in 1..Len(files)} |->
                    LET i == CHOOSE j \in 1..Len(files) : Append(Root, names[j]) = p
                    IN  files[i]]
        sub   == IF hasSub
                 THEN (SubPath :> Dir(<<>>, << <<"f4", ".py">> >>))
                      @@ (Append(SubPath, <<"f4", ".py">>) :> SubFileKind)
                 ELSE <<>>
        git   == IF hasGit
                 THEN (GitPath :> Dir(<<>>, << <<"HEAD">> >>))
                      @@ (Append(GitPath, <<"HEAD">>) :> GitFileKind)
                 ELSE <<>>
    IN  top @@ leafs @@ sub @@ git

RECURSIVE SeqsUpTo(_, _)
SeqsUpTo(S, n) ==
    IF n = 0 THEN {<<>>}
    ELSE LET shorter == SeqsUpTo(S, n - 1)
         IN  shorter \cup {Append(s, x) : s \in {t \in shorter : Len(t) = n - 1}, x \in S}

Trees ==
    {<<>>} \cup
    { MkFs(files, hasSub, hasGit) :
        files \in SeqsUpTo(FileKinds, MaxFiles), hasSub \in BOOLEAN, hasGit \in BOOLEAN }

----------------------------------------------------------------------------
(* os.walk and the pre-count *)

NotExcluded(d) == d \notin EXCLUDE_DIRS
\* line 138: dirnames[:] = [d for d in dirnames if d not in EXCLUDE_DIRS]
Prune(dirnames) == SelectSeq(dirnames, NotExcluded)

\* os.walk(top), top-down: the (dirpath, dirnames, filenames) triples in the
\* order they are yielded.  With prune, the caller removes the excluded
\* names from dirnames before os.walk descends (phase 1); without, os.walk
\* descends into every directory (phase 2).
RECURSIVE os_walk(_, _, _), os_walk_subs(_, _, _, _, _)
os_walk(f, top, prune) ==
    IF top \notin DOMAIN f THEN <<>>
    ELSE LET dirnames == IF prune THEN Prune(f[top].dirs) ELSE f[top].dirs
         IN  <<[dirpath |-> top, dirnames |-> dirnames, filenames |-> f[top].files]>>
             \o os_walk_subs(f, top, dirnames, 1, prune)
os_walk_subs(f, top, dirnames, i, prune) ==
    IF i > Len(dirnames) THEN <<>>
    ELSE os_walk(f, Append(top, dirnames[i]), prune)
         \o os_walk_subs(f, top, dirnames, i + 1, prune)

\* The iterations of the phase-1 loops of one os.walk triple (lines 139-154):
\* the directory itself, then each sub-directory, then each file.  `at` is
\* the place of the iteration in `for s in result.symbols` (line 167), 0
\* outside that loop.
TripleSteps(t) ==
    <<[op |-> "dir", parent |-> t.dirpath, name |-> <<>>, at |-> 0]>>
    \o [i \in 1..Len(t.dirnames) |->
          [op |-> "sub", parent |-> t.dirpath, name |-> t.dirnames[i], at |-> 0]]
    \o [i \in 1..Len(t.filenames) |->
          [op |-> "file", parent |-> t.dirpath, name |-> t.filenames[i], at |-> 0]]

\* The iterations of the phase-2 loops of one os.walk triple (lines 197-199)
TripleFiles(t) ==
    [i \in 1..Len(t.filenames) |->
        [op |-> "usage", parent |-> t.dirpath, name |-> t.filenames[i], at |-> 0]]

RECURSIVE WalkSteps(_), UsageSteps(_)
WalkSteps(triples) ==
    IF triples = <<>> THEN <<>>
    ELSE TripleSteps(Head(triples)) \o WalkSteps(Tail(triples))
UsageSteps(triples) ==
    IF triples = <<>> THEN <<>>
    ELSE TripleFiles(Head(triples)) \o UsageSteps(Tail(triples))

\* TreeParser.count_items: every entry below the root, the entries of
\* excluded directories left out; a root that cannot be scanned counts 0.
RECURSIVE count_items(_, _), count_dirs(_, _, _, _)
count_items(f, dir) ==
    IF dir \notin DOMAIN f THEN 0
    ELSE Len(f[dir].files) + count_dirs(f, dir, f[dir].dirs, 1)
count_dirs(f, dir, dirnames, i) ==
    IF i > Len(dirnames) THEN 0
    ELSE (IF dirnames[i] \notin EXCLUDE_DIRS
          THEN 1 + count_items(f, Append(dir, dirnames[i]))
          ELSE 0)
         + count_dirs(f, dir, dirnames, i + 1)

----------------------------------------------------------------------------
(* The TreeParser object as a record, and its methods as operators on it *)

Self ==
    [nodes |-> nodes, edges |-> edges, node_ids |-> node_ids, symbols |-> symbols,
     total_items |-> total_items, processed_items |-> processed_items,
     last_percent |-> last_percent, next_id |-> next_id, pushed |-> pushed,
     requests |-> requests, all_nodes |-> all_nodes, all_edges |-> all_edges,
     fails |-> fails]

Commit(s) ==
    /\ nodes' = s.nodes
    /\ edges' = s.edges
    /\ node_ids' = s.node_ids
    /\ symbols' = s.symbols
    /\ total_items' = s.total_items
    /\ processed_items' = s.processed_items
    /\ last_percent' = s.last_percent
    /\ next_id' = s.next_id
    /\ pushed' = s.pushed
    /\ requests' = s.requests
    /\ all_nodes' = s.all_nodes
    /\ all_edges' = s.all_edges
    /\ fails' = s.fails

\* dict.get(key): None when the key is absent
Get(m, k) == IF k \in DOMAIN m THEN m[k] ELSE None

\* dict[key] = value
Put(m, k, v) == [x \in DOMAIN m \cup {k} |-> IF x = k THEN v ELSE m[x]]

\* path.name
PathName(path) == path[Len(path)]

\* TreeParser.send_progress: the push is attempted; a failed delivery is swallowed
send_progress(s, percent) == [s EXCEPT !.pushed = Append(@, percent)]

\* TreeParser.update_progress.  int((processed / total) * 100) is computed in
\* floating point; it equals the integer floor below for every total < 50.
update_progress(s) ==
    IF s.total_items = 0 THEN s
    ELSE LET percent == (s.processed_items * 100) \div s.total_items
         IN  IF percent > s.last_percent
             THEN send_progress([s EXCEPT !.last_percent = percent], percent)
             ELSE s

\* list.append on a buffer, recorded in the history
AppendNode(s, n) == [s EXCEPT !.nodes = Append(@, n), !.all_nodes = Append(@, n)]
AppendEdge(s, e) == [s EXCEPT !.edges = Append(@, e), !.all_edges = Append(@, e)]

\* TreeParser._add_node
_add_node(s, label, name, path, ntype) ==
    LET node_id == s.next_id + 1
        s1 == [s EXCEPT !.next_id = node_id, !.node_ids = Put(@, path, node_id)]
        s2 == AppendNode(s1, [id |-> node_id, label |-> label, name |-> name,
                              path |-> path, properties |-> [type |-> ntype]])
    IN  update_progress([s2 EXCEPT !.processed_items = @ + 1])

\* TreeParser._add_edge
_add_edge_unchecked(s, source_path, target_path, rel_type, kind) ==
    AppendEdge(s, [source_id |-> Get(s.node_ids, source_path),
                   target_id |-> Get(s.node_ids, target_path),
                   type |-> rel_type, properties |-> [kind |-> kind]])
_add_edge(s, source_path, target_path, rel_type, kind) ==
    LET src_id == Get(s.node_ids, source_path)
        tgt_id == Get(s.node_ids, target_path)
    IN  IF src_id = None \/ tgt_id = None THEN s
        ELSE AppendEdge(s, [source_id |-> src_id, target_id |-> tgt_id,
                            type |-> rel_type, properties |-> [kind |-> kind]])

\* buf[:BULK_BATCH_SIZE] and buf[BULK_BATCH_SIZE:]
BatchOf(buf) == SubSeq(buf, 1, IF Len(buf) < BULK_BATCH_SIZE THEN Len(buf) ELSE BULK_BATCH_SIZE)
RestOf(buf) == SubSeq(buf, BULK_BATCH_SIZE + 1, Len(buf))

\* TreeParser._send_bulk_batch: the request is posted; a non-OK response or an
\* exception is logged and swallowed.  ok is the store's answer.
_send_bulk_batch(s, nodes_batch, edges_batch, ok) ==
    [s EXCEPT !.requests = Append(@, [nodes |-> nodes_batch, edges |-> edges_batch, ok |-> ok]),
              !.fails = IF ok THEN @ ELSE @ + 1]

\* line 123: _flush_batches posts a request
Posts(s, force) ==
    Len(s.nodes) >= BULK_BATCH_SIZE \/ Len(s.edges) >= BULK_BATCH_SIZE \/ force

\* lines 124-126: the batches are taken and posted; ok is the store's answer
PostBatch(s, ok) == _send_bulk_batch(s, BatchOf(s.nodes), BatchOf(s.edges), ok)

\* lines 127-128 when the buffers are cut only after an OK answer
CutBuffersIfOk(s) ==
    IF s.requests[Len(s.requests)].ok THEN [s EXCEPT !.nodes = RestOf(@), !.edges = RestOf(@)] ELSE s

\* lines 127-128: the buffers are cut once the request has returned
CutBuffers(s) == [s EXCEPT !.nodes = RestOf(@), !.edges = RestOf(@)]

\* The answers the store may give to the next bulk request
Answers == IF fails < MaxFail THEN {TRUE, FALSE} ELSE {TRUE}

----------------------------------------------------------------------------
(* self.symbols: a dict, kept as its items in insertion order *)

DictHas(d, k) == \E i \in 1..Len(d) : d[i].name = k
\* d[k] = v: a known key keeps its place and takes the new value
DictSet(d, k, v) ==
    IF DictHas(d, k)
    THEN [i \in 1..Len(d) |-> IF d[i].name = k THEN [name |-> k, sid |-> v] ELSE d[i]]
    ELSE Append(d, [name |-> k, sid |-> v])

----------------------------------------------------------------------------
(* traverse_tree *)

\* lines 167-188: one iteration of `for s in result.symbols`
MaterializeSymbol(s, fpath, sym) ==
    LET sid == s.next_id + 1
        symbol_type == Capitalize(sym.type)
        name == sym.name
        s1 == AppendNode([s EXCEPT !.next_id = sid],
                         [id |-> sid, label |-> symbol_type, name |-> name,
                          path |-> fpath, properties |-> sym])
        file_id == Get(s1.node_ids, fpath)
        s2 == IF file_id # None
              THEN AppendEdge(s1, [source_id |-> file_id, target_id |-> sid,
                                   type |-> "HAS_SYMBOL",
                                   properties |-> [kind |-> LowerType(symbol_type)]])
              ELSE s1
    IN  IF name # <<>> THEN [s2 EXCEPT !.symbols = DictSet(@, name, sid)] ELSE s2

\* lines 160-164 when only open() can fail
ParseRaisesOnOpen(file) == ~file.readable
\* lines 160-164: open() or parser.parse raises, which leaves the try block
\* before anything is appended and before the flush
ParseRaises(file) == ~file.readable \/ file.raises

\* lines 141-142: the Folder node of the directory os.walk yields
HandleDirAlways(s, parent) == _add_node(s, "Folder", PathName(parent), parent, "folder")
HandleDir(s, parent) ==
    IF parent \notin DOMAIN s.node_ids
    THEN _add_node(s, "Folder", PathName(parent), parent, "folder")
    ELSE s

\* lines 206-214: the items of self.symbols against the file's text
RECURSIVE ScanSymbols(_, _, _, _)
ScanSymbols(s, fpath, content, i) ==
    IF i > Len(s.symbols) THEN s
    ELSE LET symbol_name == s.symbols[i].name
             sid == s.symbols[i].sid
             s1 == IF symbol_name # <<>> /\ IsSubstring(symbol_name, content)
                   THEN AppendEdge(s, [source_id |-> s.node_ids[fpath], target_id |-> sid,
                                       type |-> "USES_SYMBOL",
                                       properties |-> [match |-> symbol_name]])
                   ELSE s
         IN  ScanSymbols(s1, fpath, content, i + 1)

\* The steps of a run.  A step ends where the run can be seen from outside
\* with its work half done: where the thread waits, in send_progress
\* (socket.create_connection, line 48) and in requests.post (line 114), and
\* before each uuid4() it draws.  pc tells where the run is; the entry at the
\* head of todo is the iteration it is in.

\* the iteration at the head of todo is over without a request
GoOn(s, back) ==
    /\ Commit(s)
    /\ pending_full' = (pending_full \/ Posts(s, FALSE))
    /\ pc' = back
    /\ todo' = Tail(todo)

\* lines 190 and 215: _flush_batches() at the end of an iteration, up to the
\* answer of its request when it posts one
FlushOrGoOn(s, wait, back) ==
    IF Posts(s, FALSE)
    THEN /\ \E ok \in Answers : Commit(PostBatch(s, ok))
         /\ pending_full' = FALSE
         /\ pc' = wait
         /\ UNCHANGED todo
    ELSE GoOn(s, back)

\* lines 131-134
CountItems ==
    /\ pc = "count"
    /\ Commit([Self EXCEPT !.total_items = count_items(fs, Root)])
    /\ todo' = WalkSteps(os_walk(fs, Root, TRUE))
    /\ pc' = "walk"
    /\ UNCHANGED <<fs, pending_full, rs, ps, ws, wk, prior>>

\* lines 141-142, up to the wait in the progress push of _add_node
WalkDir ==
    /\ pc = "walk" /\ todo # <<>> /\ Head(todo).op = "dir"
    /\ Commit(HandleDir(Self, Head(todo).parent))
    /\ todo' = Tail(todo)
    /\ UNCHANGED <<fs, pc, pending_full, rs, ps, ws, wk, prior>>

\* lines 145-147, up to the wait in the progress push of _add_node
WalkSubNode ==
    /\ pc = "walk" /\ todo # <<>> /\ Head(todo).op = "sub"
    /\ LET sub == Head(todo).name
           subpath == Append(Head(todo).parent, sub)
       IN  Commit(IF subpath \notin DOMAIN node_ids
                  THEN _add_node(Self, "Folder", sub, subpath, "folder") ELSE Self)
    /\ pc' = "sub_push"
    /\ UNCHANGED <<fs, todo, pending_full, rs, ps, ws, wk, prior>>

\* line 148, after the push
WalkSubEdge ==
    /\ pc = "sub_push"
    /\ Commit(_add_edge(Self, Head(todo).parent,
                        Append(Head(todo).parent, Head(todo).name), "CONTAINS", "folder"))
    /\ pc' = "walk"
    /\ todo' = Tail(todo)
    /\ UNCHANGED <<fs, pending_full, rs, ps, ws, wk, prior>>

\* lines 151-153, up to the wait in the progress push of _add_node
WalkFileNode ==
    /\ pc = "walk" /\ todo # <<>> /\ Head(todo).op = "file"
    /\ LET f == Head(todo).name
           fpath == Append(Head(todo).parent, f)
       IN  Commit(IF fpath \notin DOMAIN node_ids
                  THEN _add_node(Self, "File", f, fpath, "file") ELSE Self)
    /\ pc' = "file_push"
    /\ UNCHANGED <<fs, todo, pending_full, rs, ps, ws, wk, prior>>

\* lines 154-166, after the push: the CONTAINS edge, the language, open() and
\* parser.parse, up to the first uuid4() of the symbols; without symbols the
\* flush of line 190 follows at once
WalkFileParse ==
    /\ pc = "file_push"
    /\ LET parent == Head(todo).parent
           f == Head(todo).name
           fpath == Append(parent, f)
           s1 == _add_edge(Self, parent, fpath, "CONTAINS", "file")
           lang == detect_language(f)
       IN  IF lang = "None" \/ lang \notin parsers THEN GoOn(s1, "walk")
           ELSE IF ParseRaises(fs[fpath]) THEN GoOn(s1, "walk")
           ELSE IF fs[fpath].symbols = <<>> THEN FlushOrGoOn(s1, "file_post", "walk")
           ELSE /\ Commit(s1)
                /\ pc' = "symbols"
                /\ todo' = <<[Head(todo) EXCEPT !.at = 1]>> \o Tail(todo)
                /\ UNCHANGED pending_full
    /\ UNCHANGED <<fs, rs, ps, ws, wk, prior>>

\* lines 167-188: one symbol, from its uuid4() up to the uuid4() of the next
\* one; after the last symbol the flush of line 190 follows
WalkSymbol ==
    /\ pc = "symbols"
    /\ LET fpath == Append(Head(todo).parent, Head(todo).name)
           syms == fs[fpath].symbols
           i == Head(todo).at
           s1 == MaterializeSymbol(Self, fpath, syms[i])
       IN  IF i < Len(syms)
           THEN /\ Commit(s1)
                /\ todo' = <<[Head(todo) EXCEPT !.at = i + 1]>> \o Tail(todo)
                /\ UNCHANGED <<pc, pending_full>>
           ELSE FlushOrGoOn(s1, "file_post", "walk")
    /\ UNCHANGED <<fs, rs, ps, ws, wk, prior>>

\* lines 195-197: the second os.walk starts (it prunes nothing)
StartUsage ==
    /\ pc = "walk" /\ todo = <<>>
    /\ pc' = "usage"
    /\ todo' = UsageSteps(os_walk(fs, Root, FALSE))
    /\ UNCHANGED <<fs, nodes, edges, node_ids, symbols, total_items, processed_items,
                   last_percent, next_id, pushed, requests, all_nodes, all_edges,
                   fails, pending_full, rs, ps, ws, wk, prior>>

\* lines 198-215: one iteration of `for f in filenames` in phase 2, up to
\* the answer of the request when _flush_batches posts one
UsageScan ==
    /\ pc = "usage" /\ todo # <<>>
    /\ LET fpath == Append(Head(todo).parent, Head(todo).name)
       IN  IF fpath \notin DOMAIN node_ids
           THEN /\ Commit(Self)
                /\ todo' = Tail(todo)
                /\ UNCHANGED <<pc, pending_full>>
           ELSE IF ~fs[fpath].readable THEN GoOn(Self, "usage")
           ELSE FlushOrGoOn(ScanSymbols(Self, fpath, fs[fpath].content, 1),
                            "usage_post", "usage")
    /\ UNCHANGED <<fs, rs, ps, ws, wk, prior>>

\* line 220, up to the answer of the request
FinalPost ==
    /\ pc = "usage" /\ todo = <<>>
    /\ \E ok \in Answers : Commit(PostBatch(Self, ok))
    /\ pc' = "final_post"
    /\ pending_full' = FALSE
    /\ UNCHANGED <<fs, todo, rs, ps, ws, wk, prior>>

\* requests.post has returned: lines 127-128, and the iteration ends
PostReturns ==
    /\ pc \in {"file_post", "usage_post", "final_post"}
    /\ Commit(CutBuffers(Self))
    /\ pc' = CASE pc = "file_post" -> "walk"
               [] pc = "usage_post" -> "usage"
               [] pc = "final_post" -> "push"
    /\ todo' = IF pc = "final_post" THEN todo ELSE Tail(todo)
    /\ UNCHANGED <<fs, pending_full, rs, ps, ws, wk, prior>>

\* line 222
FinalPush ==
    /\ pc = "push"
    /\ Commit(send_progress(Self, 100))
    /\ pc' = "done"
    /\ UNCHANGED <<fs, todo, pending_full, rs, ps, ws, wk, prior>>

\* TreeParser.__init__, on any tree of the bounded family
Init ==
    /\ fs \in Trees
    /\ pc = "count"
    /\ todo = <<>>
    /\ nodes = <<>>
    /\ edges = <<>>
    /\ node_ids = <<>>
    /\ symbols = <<>>
    /\ total_items = 0
    /\ processed_items = 0
    /\ last_percent = -1
    /\ next_id = 0
    /\ pushed = <<>>
    /\ requests = <<>>
    /\ all_nodes = <<>>
    /\ all_edges = <<>>
    /\ fails = 0
    /\ pending_full = FALSE
    /\ rs = <<>>
    /\ ps = <<>>
    /\ ws = <<>>
    /\ wk = <<>>
    /\ prior = <<>>

Next ==
    \/ CountItems
    \/ WalkDir
    \/ WalkSubNode
    \/ WalkSubEdge
    \/ WalkFileNode
    \/ WalkFileParse
    \/ WalkSymbol
    \/ StartUsage
    \/ UsageScan
    \/ FinalPost
    \/ PostReturns
    \/ FinalPush

Spec == Init /\ [][Next]_vars

----------------------------------------------------------------------------
(* Properties of the orchestrator *)

Ids(ns) == {ns[i].id : i \in 1..Len(ns)}
Range(q) == {q[i] : i \in 1..Len(q)}
Occurrences(q, x) == Cardinality({i \in 1..Len(q) : q[i] = x})

\* The next step of the run handles a file
NextHandlesFile ==
    /\ todo # <<>>
    /\ \/ Head(todo).op = "file"
       \/ /\ Head(todo).op = "usage"
          /\ Append(Head(todo).parent, Head(todo).name) \in DOMAIN node_ids

\* C1: the percent values pushed to the progress channel, the final push
\* included, form a non-decreasing sequence.
C1_ProgressNonDecreasing ==
    \A i \in 1..(Len(pushed) - 1) : pushed[i] <= pushed[i + 1]

\* C2: when the run has ended, 100 was pushed exactly once, and that push
\* was the last one.
C2_HundredOnceAtEnd ==
    pc = "done" => /\ Occurrences(pushed, 100) = 1
                   /\ pushed[Len(pushed)] = 100

\* C3: when traverse_tree returns, both buffers are empty and every node
\* and edge appended during the run was part of some bulk request.
C3_AllSentAtReturn ==
    pc = "done" =>
        /\ nodes = <<>>
        /\ edges = <<>>
        /\ \A i \in 1..Len(all_nodes) :
             \E r \in 1..Len(requests) : all_nodes[i] \in Range(requests[r].nodes)
        /\ \A i \in 1..Len(all_edges) :
             \E r \in 1..Len(requests) : all_edges[i] \in Range(requests[r].edges)

\* C4: a file is never handled while an earlier file left a buffer at the
\* threshold with no bulk request sent since.
C4_FlushBeforeNextFile ==
    pending_full => ~NextHandlesFile

\* The files and the paths the pruned walk of phase 1 visits
WalkTriples == os_walk(fs, Root, TRUE)
WalkedFiles ==
    UNION {{Append(WalkTriples[t].dirpath, WalkTriples[t].filenames[i]) :
              i \in 1..Len(WalkTriples[t].filenames)} : t \in 1..Len(WalkTriples)}
WalkedDirs ==
    {WalkTriples[t].dirpath : t \in 1..Len(WalkTriples)}
    \cup UNION {{Append(WalkTriples[t].dirpath, WalkTriples[t].dirnames[i]) :
                   i \in 1..Len(WalkTriples[t].dirnames)} : t \in 1..Len(WalkTriples)}

\* The requests whose answer the run has received
Answered ==
    IF pc \in {"file_post", "usage_post", "final_post"}
    THEN 1..(Len(requests) - 1) ELSE 1..Len(requests)

\* C5: a failed bulk request is not retried and does not stop the run: once
\* its answer is in, what the failed batch held is in neither buffer, it is
\* in no later request, and a run with a failed request still handles every
\* file and ends with the final progress push.
C5_FailedBatchDropped ==
    /\ \A i \in 1..Len(requests) :
         ~requests[i].ok =>
            /\ i \in Answered =>
                 /\ Ids(requests[i].nodes) \cap Ids(nodes) = {}
                 /\ Range(requests[i].edges) \cap Range(edges) = {}
            /\ \A j \in (i + 1)..Len(requests) :
                 /\ Ids(requests[i].nodes) \cap Ids(requests[j].nodes) = {}
                 /\ Range(requests[i].edges) \cap Range(requests[j].edges) = {}
    /\ (pc = "done" /\ fails > 0) =>
            /\ WalkedFiles \subseteq DOMAIN node_ids
            /\ todo = <<>>
            /\ pushed # <<>> /\ pushed[Len(pushed)] = 100

\* A run has ended in which a non-empty bulk request failed and later ones followed
C5_Witness ==
    /\ pc = "done"
    /\ \E i \in 1..(Len(requests) - 1) :
         ~requests[i].ok /\ requests[i].nodes # <<>> /\ requests[i].edges # <<>>

\* Paths _add_edge can be asked about: those of the tree and one that is not in it
ProbePaths == DOMAIN fs \cup {Append(Root, <<"missing">>)}

\* C6: _add_edge with an endpoint path that has no entry in node_ids leaves
\* the edge buffer as it is, and every buffered edge is a CONTAINS,
\* HAS_SYMBOL or USES_SYMBOL edge whose source_id and target_id are ids of
\* nodes created in this run.
C6_NoDanglingEdge ==
    /\ \A sp \in ProbePaths, tp \in ProbePaths :
         (sp \notin DOMAIN node_ids \/ tp \notin DOMAIN node_ids) =>
            _add_edge(Self, sp, tp, "CONTAINS", "file").edges = edges
    /\ \A i \in 1..Len(edges) :
         /\ edges[i].type \in {"CONTAINS", "HAS_SYMBOL", "USES_SYMBOL"}
         /\ edges[i].source_id \in Ids(all_nodes)
         /\ edges[i].target_id \in Ids(all_nodes)

\* The buffer holds edges of the usage pass and of the walk while some path
\* of the tree has no node
C6_Witness ==
    /\ \E i \in 1..Len(edges) : edges[i].type = "USES_SYMBOL"
    /\ \E i \in 1..Len(edges) : edges[i].type \in {"HAS_SYMBOL", "CONTAINS"}
    /\ \E p \in DOMAIN fs : p \notin DOMAIN node_ids

\* Nodes made from extracted symbols, and edges of one type
IsTreeNode(n) == n.label \in {"Folder", "File"}
SymbolNodes(ns) == {i \in 1..Len(ns) : ~IsTreeNode(ns[i])}
EdgesOfType(es, t) == {i \in 1..Len(es) : es[i].type = t}

\* The run is in the iteration of a file whose open() or parse raises: at
\* its start, or after the progress push of its File node
InRaisingFile ==
    /\ pc \in {"walk", "file_push"} /\ todo # <<>> /\ Head(todo).op = "file"
    /\ detect_language(Head(todo).name) \in parsers
    /\ LET file == fs[Append(Head(todo).parent, Head(todo).name)]
       IN  ~file.readable \/ file.raises

\* C7: the steps of the iteration of a file whose read or parse raises add
\* no symbol node and no HAS_SYMBOL edge and leave self.symbols as it is;
\* the step in which it raises ends the iteration without a request, and the
\* walk goes on with the entries that follow; at the end of the run every
\* file of the walk has been handled.
C7_RaisingFileIsolated ==
    /\ [][InRaisingFile =>
            /\ symbols' = symbols
            /\ SymbolNodes(all_nodes') = SymbolNodes(all_nodes)
            /\ EdgesOfType(all_edges', "HAS_SYMBOL") = EdgesOfType(all_edges, "HAS_SYMBOL")
            /\ pc = "walk" => (pc' = "file_push" /\ todo' = todo)
            /\ pc = "file_push" =>
                 (pc' = "walk" /\ todo' = Tail(todo) /\ requests' = requests)]_vars
    /\ [](pc = "done" => WalkedFiles \subseteq DOMAIN node_ids)

\* A run has ended in which a file raised and the symbols of a file after it
\* were materialized
C7_Witness ==
    /\ pc = "done"
    /\ \E p \in WalkedFiles :
         /\ detect_language(PathName(p)) \in parsers
         /\ fs[p].raises
         /\ \E i \in SymbolNodes(all_nodes) : all_nodes[i].id > node_ids[p]

Parent(path) == SubSeq(path, 1, Len(path) - 1)
TreeNodesAt(p) == {i \in 1..Len(all_nodes) : IsTreeNode(all_nodes[i]) /\ all_nodes[i].path = p}
IncomingEdges(t, id) == {j \in 1..Len(all_edges) : all_edges[j].type = t /\ all_edges[j].target_id = id}

\* C8: after the main walk every visited path has exactly one Folder or File
\* node (Folder for a directory, File for a file) and no other path has
\* one; every such node but the root's has exactly one incoming CONTAINS
\* edge, from the node of its parent directory; every symbol node has
\* exactly one incoming HAS_SYMBOL edge, from the File node of its file.
C8_TreeShape ==
    pc \in {"usage", "usage_post", "final_post", "push", "done"} =>
        /\ \A p \in WalkedDirs :
             /\ Cardinality(TreeNodesAt(p)) = 1
             /\ \A i \in TreeNodesAt(p) : all_nodes[i].label = "Folder"
        /\ \A p \in WalkedFiles :
             /\ Cardinality(TreeNodesAt(p)) = 1
             /\ \A i \in TreeNodesAt(p) : all_nodes[i].label = "File"
        /\ \A i \in 1..Len(all_nodes) :
             IsTreeNode(all_nodes[i]) => all_nodes[i].path \in WalkedDirs \cup WalkedFiles
        /\ \A i \in 1..Len(all_nodes) :
             (IsTreeNode(all_nodes[i]) /\ all_nodes[i].path # Root) =>
                /\ Cardinality(IncomingEdges("CONTAINS", all_nodes[i].id)) = 1
                /\ \A j \in IncomingEdges("CONTAINS", all_nodes[i].id) :
                     \E k \in TreeNodesAt(Parent(all_nodes[i].path)) :
                        all_edges[j].source_id = all_nodes[k].id
        /\ \A i \in SymbolNodes(all_nodes) :
             /\ Cardinality(IncomingEdges("HAS_SYMBOL", all_nodes[i].id)) = 1
             /\ \A j \in IncomingEdges("HAS_SYMBOL", all_nodes[i].id) :
                  \E k \in TreeNodesAt(all_nodes[i].path) :
                     /\ all_nodes[k].label = "File"
                     /\ all_edges[j].source_id = all_nodes[k].id

\* The main walk is over on a tree with a sub-directory, a file in it and
\* symbols extracted from at least two files
C8_Witness ==
    /\ pc = "usage"
    /\ SubPath \in DOMAIN node_ids
    /\ Cardinality({all_nodes[i].path : i \in SymbolNodes(all_nodes)}) >= 2

\* name occurs in content: content = before \o name \o after
Occurs(name, content) ==
    \E i \in 0..Len(content), j \in 0..Len(content) :
        i <= j /\ SubSeq(content, i + 1, j) = name

UsesEdges(file_id, sid) ==
    {j \in 1..Len(all_edges) :
        /\ all_edges[j].type = "USES_SYMBOL"
        /\ all_edges[j].source_id = file_id
        /\ all_edges[j].target_id = sid}

\* The usage pass is over
UsageDone == pc \in {"final_post", "push", "done"}

\* the USES_SYMBOL edges of file p for the k-th item of self.symbols are one
\* edge recording the name when wanted, none otherwise
UsageEdgesAre(p, k, wanted) ==
    LET hits == UsesEdges(node_ids[p], symbols[k].sid)
    IN  /\ Cardinality(hits) = IF wanted THEN 1 ELSE 0
        /\ \A j \in hits : all_edges[j].properties.match = symbols[k].name

\* C9 as stated: when the usage pass is over, for every file with a File node
\* and every name of self.symbols there is exactly one USES_SYMBOL edge from
\* the file's node to the symbol registered under the name if the name occurs
\* in the file's text, and none if it does not.
C9_UsageEdgesEveryFile ==
    UsageDone =>
        \A p \in WalkedFiles : \A k \in 1..Len(symbols) :
            UsageEdgesAre(p, k, Occurs(symbols[k].name, fs[p].content))

\* C9, amended: when the usage pass is over, for every file with a File node
\* whose text the usage pass could read and every name of self.symbols there
\* is exactly one USES_SYMBOL edge from the file's node to the symbol
\* registered under the name if the name occurs in the text, and none if it
\* does not; a file whose open() raises gets no USES_SYMBOL edge whatever
\* its text holds.
C9_UsageEdges ==
    UsageDone =>
        \A p \in WalkedFiles : \A k \in 1..Len(symbols) :
            UsageEdgesAre(p, k, fs[p].readable /\ Occurs(symbols[k].name, fs[p].content))

\* The usage pass is over on a tree where one file's text holds a known name
\* and another known name does not occur in it, and where the text of a file
\* that cannot be read holds a known name
C9_Witness ==
    /\ pc = "push"
    /\ \E p \in WalkedFiles : \E k1 \in 1..Len(symbols), k2 \in 1..Len(symbols) :
         /\ fs[p].readable
         /\ Occurs(symbols[k1].name, fs[p].content)
         /\ ~Occurs(symbols[k2].name, fs[p].content)
         /\ \E c \in DOMAIN fs[p].content : fs[p].content[c] = symbols[k2].name[1]
    /\ \E q \in WalkedFiles : \E k \in 1..Len(symbols) :
         ~fs[q].readable /\ Occurs(symbols[k].name, fs[q].content)

----------------------------------------------------------------------------
(* CallResolver (resolve_calls.py) *)

\* number of files in the tree the resolver walks
MaxRFiles == 2
\* number of resolve_calls invocations on one CallResolver
MaxRuns == 2

Rel(t, src, tgt) == [type |-> t, source |-> src, target |-> tgt]

\* What a file is to the resolver: its name, whether open() succeeds, whether
\* parser.parse raises on it, and the relations parse returns.
RFile(name, readable, raises, rels) ==
    [name |-> name, readable |-> readable, raises |-> raises, relations |-> rels]

RFileKinds ==
    { RFile(<<"a", ".py">>, TRUE, FALSE, <<Rel("CALLS", "f", "g")>>),
      RFile(<<"b", ".py">>, TRUE, FALSE,
            <<Rel("CALLS", "f", "h"), Rel("IMPORTS", "f", "g"), Rel("CALLS", "g", "f")>>),
      RFile(<<"c", ".txt">>, TRUE, FALSE, <<Rel("CALLS", "f", "g")>>),
      RFile(<<"d", ".py">>, TRUE, TRUE, <<Rel("CALLS", "f", "g")>>),
      RFile(<<"e", ".py">>, FALSE, FALSE, <<>>),
      RFile(<<"m", ".js">>, TRUE, FALSE, <<Rel("CALLS", "x", "g"), Rel("EXTENDS", "f", "g")>>) }

Entry(n, i) == [name |-> n, id |-> i]

\* The store's answers to GET /api/graph/symbols: the HTTP outcome and the
\* "symbols" list of the body (an entry without "name" makes s["name"] raise)
SymbolResponses ==
    { [status |-> "ok", symbols |-> <<Entry("f", 1), Entry("g", 2)>>],
      [status |-> "ok", symbols |-> <<Entry("f", 1), Entry("g", 2), Entry("h", 3), Entry("f", 4)>>],
      [status |-> "ok", symbols |-> <<>>],
      [status |-> "ok", symbols |-> <<Entry("f", 1), [id |-> 5], Entry("g", 2)>>],
      [status |-> "ok", symbols |-> <<Entry("f", 1), Entry("g", 2), [id |-> 5]>>],
      [status |-> "error", symbols |-> <<>>],
      [status |-> "exception", symbols |-> <<>>] }

\* lines 39-40: the loop over data["symbols"]; it stops at the entry that raises
RECURSIVE LoadEntries(_, _, _)
LoadEntries(index, entries, i) ==
    IF i > Len(entries) THEN index
    ELSE IF "name" \notin DOMAIN entries[i] \/ "id" \notin DOMAIN entries[i] THEN index
    ELSE LoadEntries(Put(index, entries[i].name, entries[i].id), entries, i + 1)

\* CallResolver.load_symbols
load_symbols(r) ==
    IF r.response.status = "ok"
    THEN [r EXCEPT !.symbol_index = LoadEntries(@, r.response.symbols, 1)]
    ELSE r

\* lines 64-73: one iteration of `for rel in result.relations`
ResolveRelEither(r, rel) ==
    IF rel.type = "CALLS"
    THEN IF rel.source \in DOMAIN r.symbol_index \/ rel.target \in DOMAIN r.symbol_index
         THEN [r EXCEPT !.edges = Append(@, [source_id |-> Get(r.symbol_index, rel.source),
                                             target_id |-> Get(r.symbol_index, rel.target),
                                             type |-> "CALLS", properties |-> rel])]
         ELSE [r EXCEPT !.dropped = @ + 1]
    ELSE r
ResolveRel(r, rel) ==
    IF rel.type = "CALLS"
    THEN LET src_name == rel.source
             tgt_name == rel.target
         IN  IF src_name \in DOMAIN r.symbol_index /\ tgt_name \in DOMAIN r.symbol_index
             THEN [r EXCEPT !.edges = Append(@, [source_id |-> r.symbol_index[src_name],
                                                 target_id |-> r.symbol_index[tgt_name],
                                                 type |-> "CALLS", properties |-> rel])]
             ELSE [r EXCEPT !.dropped = @ + 1]
    ELSE r

RECURSIVE ResolveRels(_, _, _)
ResolveRels(r, rels, i) ==
    IF i > Len(rels) THEN r
    ELSE ResolveRels(ResolveRel(r, rels[i]), rels, i + 1)

\* lines 53-75: one iteration of `for f in filenames`
ResolveOne(r, file) ==
    LET lang == detect_language(file.name)
    IN  IF lang = "None" \/ lang \notin parsers THEN r
        ELSE IF ~file.readable \/ file.raises THEN r
        ELSE ResolveRels(r, file.relations, 1)

\* CallResolver.__init__ on a tree and a store of the bounded families
RInit ==
    /\ rs \in { [phase |-> "idle", symbol_index |-> <<>>, edges |-> <<>>,
                 files |-> files, response |-> resp, todo |-> <<>>,
                 requests |-> <<>>, runs |-> 0, loads |-> 0, dropped |-> 0,
                 warned |-> 0, resolved |-> <<>>] :
                 files \in SeqsUpTo(RFileKinds, MaxRFiles), resp \in SymbolResponses }
    /\ fs = <<>>
    /\ pc = "idle"
    /\ todo = <<>>
    /\ nodes = <<>>
    /\ edges = <<>>
    /\ node_ids = <<>>
    /\ symbols = <<>>
    /\ total_items = 0
    /\ processed_items = 0
    /\ last_percent = -1
    /\ next_id = 0
    /\ pushed = <<>>
    /\ requests = <<>>
    /\ all_nodes = <<>>
    /\ all_edges = <<>>
    /\ fails = 0
    /\ pending_full = FALSE
    /\ ps = <<>>
    /\ ws = <<>>
    /\ wk = <<>>
    /\ prior = <<>>

\* resolver.load_symbols()
LoadSymbols ==
    /\ rs.phase = "idle" /\ rs.loads = 0
    /\ rs' = [load_symbols(rs) EXCEPT !.loads = 1]
    /\ UNCHANGED <<tvars, ps, ws, wk, prior>>

\* line 52: resolve_calls is entered and os.walk starts
BeginResolve ==
    /\ rs.phase = "idle" /\ rs.runs < MaxRuns
    /\ rs' = [rs EXCEPT !.phase = "walk", !.todo = rs.files, !.runs = @ + 1,
                         !.resolved = Append(@, 0)]
    /\ UNCHANGED <<tvars, ps, ws, wk, prior>>

ResolveFile ==
    /\ rs.phase = "walk" /\ rs.todo # <<>>
    /\ LET r == ResolveOne(rs, Head(rs.todo))
       IN  rs' = [r EXCEPT !.todo = Tail(rs.todo),
                           !.resolved[rs.runs] = @ + Len(r.edges) - Len(rs.edges)]
    /\ UNCHANGED <<tvars, ps, ws, wk, prior>>

FinishEmptyPost ==
    /\ rs.phase = "walk" /\ rs.todo = <<>> /\ rs.edges = <<>>
    /\ rs' = [rs EXCEPT !.phase = "idle", !.warned = @ + 1,
                        !.requests = Append(@, [run |-> rs.runs, nodes |-> <<>>,
                                                edges |-> rs.edges, ok |-> TRUE])]
    /\ UNCHANGED <<tvars, ps, ws, wk, prior>>
\* lines 77-79: nothing resolved, the pass ends with a warning
FinishEmpty ==
    /\ rs.phase = "walk" /\ rs.todo = <<>> /\ rs.edges = <<>>
    /\ rs' = [rs EXCEPT !.phase = "idle", !.warned = @ + 1]
    /\ UNCHANGED <<tvars, ps, ws, wk, prior>>

\* lines 81-91: the bulk request; its failure is logged and swallowed
SendEdges ==
    /\ rs.phase = "walk" /\ rs.todo = <<>> /\ rs.edges # <<>>
    /\ \E ok \in BOOLEAN :
         rs' = [rs EXCEPT !.phase = "idle",
                          !.requests = Append(@, [run |-> rs.runs, nodes |-> <<>>,
                                                  edges |-> rs.edges, ok |-> ok])]
    /\ UNCHANGED <<tvars, ps, ws, wk, prior>>

RNext ==
    \/ LoadSymbols
    \/ BeginResolve
    \/ ResolveFile
    \/ FinishEmpty
    \/ SendEdges

SpecResolver == RInit /\ [][RNext]_vars

\* C10: every edge the resolver has emitted is a CALLS edge made from a CALLS
\* relation whose source key and target key are both in the symbol index,
\* with the index entries of those keys as source_id and target_id; so a
\* CALLS relation with a key missing from the index has no edge.
C10_ResolvedEdges ==
    \A i \in 1..Len(rs.edges) :
        LET e == rs.edges[i]
        IN  /\ e.type = "CALLS"
            /\ e.properties.type = "CALLS"
            /\ e.properties.source \in DOMAIN rs.symbol_index
            /\ e.properties.target \in DOMAIN rs.symbol_index
            /\ e.source_id = rs.symbol_index[e.properties.source]
            /\ e.target_id = rs.symbol_index[e.properties.target]

\* The resolver has emitted an edge and has dropped a CALLS relation with a
\* key missing from a non-empty index
C10_Witness ==
    /\ rs.edges # <<>>
    /\ rs.dropped > 0
    /\ rs.phase = "idle" /\ rs.runs > 0

\* The bulk requests that invocation r of resolve_calls has posted
RequestsOfRun(r) == { i \in 1..Len(rs.requests) : rs.requests[i].run = r }

\* C12: an invocation of resolve_calls posts no bulk request while it walks
\* the tree; once it has returned it has posted exactly one request if it
\* resolved at least one edge, and none if it resolved none.
C12_OneRequestPerRun ==
    \A r \in 1..rs.runs :
        /\ Cardinality(RequestsOfRun(r)) <= 1
        /\ (rs.phase = "walk" /\ r = rs.runs) => RequestsOfRun(r) = {}
        /\ (rs.phase = "idle" \/ r < rs.runs) =>
               (Cardinality(RequestsOfRun(r)) = 1 <=> rs.resolved[r] > 0)

\* Two invocations have returned: one resolved nothing and posted nothing,
\* the other resolved an edge out of two files and posted one request
C12_Witness ==
    /\ rs.phase = "idle" /\ rs.runs = 2 /\ Len(rs.files) = 2
    /\ rs.resolved[1] = 0 /\ RequestsOfRun(1) = {}
    /\ rs.resolved[2] > 0 /\ Cardinality(RequestsOfRun(2)) = 1

\* The store's answer made load_symbols fail: a non-OK status, an exception
\* while fetching, or an entry of the body that raises while it is read
LoadFailed ==
    \/ rs.response.status # "ok"
    \/ \E i \in 1..Len(rs.response.symbols) : "name" \notin DOMAIN rs.response.symbols[i]

\* C13: after a failed load_symbols the symbol index is empty, and a
\* resolve_calls that follows emits no edge and posts no bulk request.
C13_FailedLoadEmptyIndex ==
    (rs.loads = 1 /\ LoadFailed) =>
        /\ rs.symbol_index = <<>>
        /\ rs.edges = <<>>
        /\ rs.requests = <<>>

----------------------------------------------------------------------------
(* The language extractors (parsers/*.py).                                 *)
(*                                                                         *)
(* A source text is a sequence of one-character strings.  The regular      *)
(* expressions of the extractors are sequences of items matched the way    *)
(* Python's re matches them: leftmost start, alternatives and repetition   *)
(* counts tried in priority order, backtracking on failure.                *)

LowerAlphabet == <<"a","b","c","d","e","f","g","h","i","j","k","l","m",
                   "n","o","p","q","r","s","t","u","v","w","x","y","z">>
UpperAlphabet == <<"A","B","C","D","E","F","G","H","I","J","K","L","M",
                   "N","O","P","Q","R","S","T","U","V","W","X","Y","Z">>
Lowercase == Range(LowerAlphabet)
Uppercase == Range(UpperAlphabet)
\* the character in both cases (re.I)
BothCases(c) ==
    {c} \cup { UpperAlphabet[i] : i \in { j \in DOMAIN LowerAlphabet : LowerAlphabet[j] = c } }
        \cup { LowerAlphabet[i] : i \in { j \in DOMAIN UpperAlphabet : UpperAlphabet[j] = c } }
Digits == {"0","1","2","3","4","5","6","7","8","9"}
Letters == Lowercase \cup Uppercase
\* [A-Za-z_] and \w
IdentStart == Letters \cup {"_"}
WordChars == Letters \cup Digits \cup {"_"}
\* \s
Space == {" ", "\t", "\n", "\r", "\f"}

\* A character class with its repetition: cs negated or not, between min and
\* max times (max < 0: no upper limit), lazy or greedy
Cls(cs, neg, min, max, lazy) ==
    [k |-> "cls", cs |-> cs, neg |-> neg, min |-> min, max |-> max, lazy |-> lazy]
One(cs) == <<Cls(cs, FALSE, 1, 1, FALSE)>>
Star(cs) == <<Cls(cs, FALSE, 0, -1, FALSE)>>
Plus(cs) == <<Cls(cs, FALSE, 1, -1, FALSE)>>
Maybe(cs) == <<Cls(cs, FALSE, 0, 1, FALSE)>>
\* [^...]+ and [^...]*
PlusNot(cs) == <<Cls(cs, TRUE, 1, -1, FALSE)>>
StarNot(cs) == <<Cls(cs, TRUE, 0, -1, FALSE)>>
\* .+? (any character but a newline, as few as possible)
DotPlusLazy == <<Cls({"\n"}, TRUE, 1, -1, TRUE)>>
\* [\s\S]*?
AnyStarLazy == <<Cls({}, TRUE, 0, -1, TRUE)>>
\* a literal text: at each place the set of characters that match there
Lit(text) == <<[k |-> "lit", sets |-> [i \in 1..Len(text) |-> {text[i]}]]>>
\* a literal text under re.I
LitI(text) == <<[k |-> "lit", sets |-> [i \in 1..Len(text) |-> BothCases(text[i])]]>>
\* ^ under re.M, \b, a capturing group, an alternation, an optional group, \1
Bol == <<[k |-> "bol"]>>
WordBoundary == <<[k |-> "wb"]>>
Group(g, re) == <<[k |-> "open", g |-> g]>> \o re \o <<[k |-> "close", g |-> g]>>
Alt(alts) == <<[k |-> "alt", alts |-> alts]>>
OptGroup(re) == <<[k |-> "alt", alts |-> <<re, <<>> >>]>>
BackRef(g) == <<[k |-> "ref", g |-> g]>>
\* an identifier [A-Za-z_]\w*
Ident == One(IdentStart) \o Star(WordChars)

NoMatch == [ok |-> FALSE]
\* the groups of a match that took part in none: (0, 0)
NoGroups(ng) == [g \in 1..ng |-> <<0, 0>>]

InClass(it, c) == (c \in it.cs) # it.neg

\* the number of characters from position i on that the class item can take
Run(it, s, i) ==
    LET limit == IF it.max >= 0 /\ it.max < Len(s) - i + 1 THEN it.max ELSE Len(s) - i + 1
        fits == { n \in 0..limit : \A j \in 0..(n - 1) : InClass(it, s[i + j]) }
    IN  CHOOSE n \in fits : \A m \in fits : m <= n

IsWordAt(s, i) == i >= 1 /\ i <= Len(s) /\ s[i] \in WordChars

LitFits(it, s, i) ==
    /\ i + Len(it.sets) - 1 <= Len(s)
    /\ \A j \in 1..Len(it.sets) : s[i + j - 1] \in it.sets[j]

\* a condition the items k.. of re need in order to match at position i
NextFits(re, k, s, i) ==
    IF k > Len(re) THEN TRUE
    ELSE CASE re[k].k = "lit" -> LitFits(re[k], s, i)
           [] re[k].k = "cls" -> re[k].min = 0 \/ (i <= Len(s) /\ InClass(re[k], s[i]))
           [] OTHER -> TRUE

RECURSIVE MatchAt(_, _, _, _, _), TryCounts(_, _, _, _, _, _, _), TryAlts(_, _, _, _, _, _)
\* the match of the items k.. of re at position i of s, or NoMatch
MatchAt(re, k, s, i, caps) ==
    IF k > Len(re) THEN [ok |-> TRUE, end |-> i, caps |-> caps]
    ELSE LET it == re[k]
         IN  CASE it.k = "lit" ->
                    IF LitFits(it, s, i) THEN MatchAt(re, k + 1, s, i + Len(it.sets), caps)
                    ELSE NoMatch
               [] it.k = "cls" ->
                    LET n == Run(it, s, i)
                        counts == { c \in it.min..n : NextFits(re, k + 1, s, i + c) }
                    IN  TryCounts(re, k, s, i, caps, counts, it.lazy)
               [] it.k = "bol" ->
                    IF i = 1 \/ s[i - 1] = "\n" THEN MatchAt(re, k + 1, s, i, caps)
                    ELSE NoMatch
               [] it.k = "wb" ->
                    IF IsWordAt(s, i - 1) # IsWordAt(s, i) THEN MatchAt(re, k + 1, s, i, caps)
                    ELSE NoMatch
               [] it.k = "open" ->
                    MatchAt(re, k + 1, s, i, [caps EXCEPT ![it.g] = <<i, 0>>])
               [] it.k = "close" ->
                    MatchAt(re, k + 1, s, i, [caps EXCEPT ![it.g] = <<@[1], i>>])
               [] it.k = "alt" -> TryAlts(re, k, s, i, caps, 1)
               [] it.k = "ref" ->
                    LET t == SubSeq(s, caps[it.g][1], caps[it.g][2] - 1)
                    IN  IF i + Len(t) - 1 <= Len(s) /\ SubSeq(s, i, i + Len(t) - 1) = t
                        THEN MatchAt(re, k + 1, s, i + Len(t), caps)
                        ELSE NoMatch
\* the repetition counts in priority order: the fewest first when lazy, the
\* most first when greedy; the first count after which the rest matches wins
TryCounts(re, k, s, i, caps, counts, lazy) ==
    IF counts = {} THEN NoMatch
    ELSE LET c == IF lazy THEN CHOOSE x \in counts : \A y \in counts : x <= y
                  ELSE CHOOSE x \in counts : \A y \in counts : y <= x
             r == MatchAt(re, k + 1, s, i + c, caps)
         IN  IF r.ok THEN r ELSE TryCounts(re, k, s, i, caps, counts \ {c}, lazy)
\* the alternatives from the a-th on, in order
TryAlts(re, k, s, i, caps, a) ==
    IF a > Len(re[k].alts) THEN NoMatch
    ELSE LET r == MatchAt(re[k].alts[a] \o SubSeq(re, k + 1, Len(re)), 1, s, i, caps)
         IN  IF r.ok THEN r ELSE TryAlts(re, k, s, i, caps, a + 1)

\* re.finditer(re, s): the non-overlapping matches from position pos on, leftmost first
RECURSIVE finditer(_, _, _, _)
finditer(re, ng, s, pos) ==
    LET starts == { i \in pos..(Len(s) + 1) : MatchAt(re, 1, s, i, NoGroups(ng)).ok }
    IN  IF starts = {} THEN <<>>
        ELSE LET i == CHOOSE x \in starts : \A y \in starts : x <= y
                 r == MatchAt(re, 1, s, i, NoGroups(ng))
             IN  <<[start |-> i, end |-> r.end, caps |-> r.caps]>>
                 \o finditer(re, ng, s, IF r.end = i THEN i + 1 ELSE r.end)

\* m.group(g), for a group that took part in the match
group(s, m, g) == SubSeq(s, m.caps[g][1], m.caps[g][2] - 1)
\* m.group(0)
group0(s, m) == SubSeq(s, m.start, m.end - 1)
\* whether m.group(g) is truthy
HasGroup(m, g) == m.caps[g][2] > m.caps[g][1]

\* str.strip(): without the whitespace at both ends
RECURSIVE lstrip(_, _), rstrip(_, _)
lstrip(s, cs) == IF s # <<>> /\ Head(s) \in cs THEN lstrip(Tail(s), cs) ELSE s
rstrip(s, cs) ==
    IF s # <<>> /\ s[Len(s)] \in cs THEN rstrip(SubSeq(s, 1, Len(s) - 1), cs) ELSE s
strip(s) == lstrip(rstrip(s, Space), Space)

----------------------------------------------------------------------------
(* The extractors that read the text with regular expressions *)

Quotes == {"'", "\""}

\* BaseParser.sym, BaseParser.rel (Rel) and BaseParser.diag
sym(stype, name, language) == [type |-> stype, name |-> name, language |-> language]
diag(level, msg) == [level |-> level, message |-> msg]

ParseResult(language, path, syms, rels, diags) ==
    [language |-> language, path |-> path, symbols |-> syms, relations |-> rels,
     diagnostics |-> diags]

\* A parse call's path argument: a text, or None (has_path FALSE)
NoPath == [has_path |-> FALSE, text |-> <<>>]
APath(text) == [has_path |-> TRUE, text |-> text]
\* path or "<memory>"
PathOrMemory(path) == IF path.has_path /\ path.text # <<>> THEN path.text ELSE <<"<", "m", "e", "m", "o", "r", "y", ">">>
\* f"{path}"
PathStr(path) == IF path.has_path THEN path.text ELSE <<"N", "o", "n", "e">>

\* [f(m) for m in matches]
MapSeq(q, F(_)) == [i \in 1..Len(q) |-> F(q[i])]

FallbackWarning == <<diag("warning", "tree-sitter not available; using regex fallback")>>

\* python_parser.py lines 350-355
PyDefRe ==
    Bol \o Star(Space) \o Lit(<<"d", "e", "f">>) \o Plus(Space) \o Group(1, Ident) \o Star(Space) \o Lit(<<"(">>)
PyClassRe ==
    Bol \o Star(Space) \o Lit(<<"c", "l", "a", "s", "s">>) \o Plus(Space) \o Group(1, Ident) \o Star(Space)
        \o One({":", "("})
PyImportRe ==
    Bol \o Star(Space)
        \o Group(1, Alt(<<Lit(<<"f", "r", "o", "m">>) \o Plus(Space) \o Plus(WordChars \cup {"."}) \o Plus(Space)
                              \o Lit(<<"i", "m", "p", "o", "r", "t">>) \o Plus(Space) \o PlusNot({"\n"}),
                          Lit(<<"i", "m", "p", "o", "r", "t">>) \o Plus(Space) \o PlusNot({"\n"})>>))

\* PythonParser.parse without a grammar engine (lines 347-357)
PythonFallback(content, path) ==
    LET Fn(m) == sym("function", group(content, m, 1), "python")
        Cl(m) == sym("class", group(content, m, 1), "python")
        Im(m) == Rel("IMPORTS", PathOrMemory(path), strip(group(content, m, 1)))
    IN  ParseResult("python", path,
                    MapSeq(finditer(PyDefRe, 1, content, 1), Fn)
                        \o MapSeq(finditer(PyClassRe, 1, content, 1), Cl),
                    MapSeq(finditer(PyImportRe, 1, content, 1), Im),
                    FallbackWarning)

\* javascript_parser.py lines 96-103
JsFunctionRe ==
    Lit(<<"f", "u", "n", "c", "t", "i", "o", "n">>) \o Plus(Space) \o Group(1, Ident) \o Star(Space) \o Lit(<<"(">>)
JsClassRe == Lit(<<"c", "l", "a", "s", "s">>) \o Plus(Space) \o Group(1, Ident) \o Star(Space)
JsImportRe ==
    Bol \o Star(Space) \o Lit(<<"i", "m", "p", "o", "r", "t">>) \o Plus(Space) \o DotPlusLazy \o Lit(<<"f", "r", "o", "m">>)
        \o Plus(Space) \o One(Quotes) \o Group(1, DotPlusLazy) \o One(Quotes)
JsRequireRe ==
    Lit(<<"r", "e", "q", "u", "i", "r", "e", "(">>) \o One(Quotes) \o Group(1, DotPlusLazy) \o One(Quotes) \o Lit(<<")">>)

\* JavaScriptParser.parse without a grammar engine (lines 94-105)
JavaScriptFallback(content, path) ==
    LET Fn(m) == sym("function", group(content, m, 1), "javascript")
        Cl(m) == sym("class", group(content, m, 1), "javascript")
        Im(m) == Rel("IMPORTS", PathOrMemory(path), group(content, m, 1))
        Rq(m) == Rel("REQUIRES", PathOrMemory(path), group(content, m, 1))
    IN  ParseResult("javascript", path,
                    MapSeq(finditer(JsFunctionRe, 1, content, 1), Fn)
                        \o MapSeq(finditer(JsClassRe, 1, content, 1), Cl),
                    MapSeq(finditer(JsImportRe, 1, content, 1), Im)
                        \o MapSeq(finditer(JsRequireRe, 1, content, 1), Rq),
                    FallbackWarning)

\* php_parser.py lines 76-81
PhpFunctionRe ==
    Lit(<<"f", "u", "n", "c", "t", "i", "o", "n">>) \o Plus(Space) \o Group(1, Ident) \o Star(Space) \o Lit(<<"(">>)
PhpClassRe == Lit(<<"c", "l", "a", "s", "s">>) \o Plus(Space) \o Group(1, Ident) \o WordBoundary
PhpIncludeRe ==
    WordBoundary
        \o Group(1, Alt(<<Lit(<<"i", "n", "c", "l", "u", "d", "e">>), Lit(<<"i", "n", "c", "l", "u", "d", "e", "_", "o", "n", "c", "e">>), Lit(<<"r", "e", "q", "u", "i", "r", "e">>),
                          Lit(<<"r", "e", "q", "u", "i", "r", "e", "_", "o", "n", "c", "e">>)>>))
        \o Star(Space) \o Maybe({"("}) \o Star(Space) \o One(Quotes)
        \o Group(2, DotPlusLazy) \o One(Quotes) \o Star(Space) \o Maybe({")"})

\* PHPParser.parse without a grammar engine (lines 74-83)
PHPFallback(content, path) ==
    LET Fn(m) == sym("function", group(content, m, 1), "php")
        Cl(m) == sym("class", group(content, m, 1), "php")
        In(m) == Rel("INCLUDES", PathOrMemory(path), group(content, m, 2))
    IN  ParseResult("php", path,
                    MapSeq(finditer(PhpFunctionRe, 1, content, 1), Fn)
                        \o MapSeq(finditer(PhpClassRe, 1, content, 1), Cl),
                    MapSeq(finditer(PhpIncludeRe, 2, content, 1), In),
                    FallbackWarning)

\* c_parser.py lines 42, 46, 50
CIncludeRe ==
    Bol \o Star(Space) \o Lit(<<"#">>) \o Star(Space) \o Lit(<<"i", "n", "c", "l", "u", "d", "e">>) \o Plus(Space)
        \o One({"<", "\""}) \o Group(1, DotPlusLazy) \o One({">", "\""})
CFunctionRe ==
    Bol \o Star(Space) \o One(IdentStart)
        \o Star(WordChars \cup Space \cup {"*", "(", ")", ","}) \o Plus(Space)
        \o Group(1, Ident) \o Star(Space) \o Lit(<<"(">>) \o StarNot({")"}) \o Lit(<<")">>)
        \o Star(Space) \o Lit(<<"{">>)
CStructRe ==
    Bol \o Star(Space) \o Lit(<<"s", "t", "r", "u", "c", "t">>) \o Plus(Space) \o Group(1, Ident) \o Star(Space)
        \o Lit(<<"{">>)

\* CParser.parse (lines 38-53): the same with or without a grammar engine
CParse(content, path) ==
    LET In(m) == Rel("INCLUDES", PathOrMemory(path), group(content, m, 1))
        Fn(m) == sym("function", group(content, m, 1), "c")
        St(m) == sym("struct", group(content, m, 1), "c")
    IN  ParseResult("c", path,
                    MapSeq(finditer(CFunctionRe, 1, content, 1), Fn)
                        \o MapSeq(finditer(CStructRe, 1, content, 1), St),
                    MapSeq(finditer(CIncludeRe, 1, content, 1), In),
                    <<>>)

\* rust_parser.py lines 49-62
RustUseRe ==
    Bol \o Star(Space) \o Lit(<<"u", "s", "e">>) \o Plus(Space)
        \o Group(1, Plus(Letters \cup Digits \cup Space \cup {"_", ":", "{", "}", "*", ","}))
        \o Lit(<<";">>)
\* ^\s*(pub\s+)?kw\s+([A-Za-z_]\w*)
RustItemRe(kw) ==
    Bol \o Star(Space) \o Alt(<<Group(1, Lit(<<"p", "u", "b">>) \o Plus(Space)), <<>> >>)
        \o Lit(kw) \o Plus(Space) \o Group(2, Ident)
RustFnRe == RustItemRe(<<"f", "n">>) \o Star(Space) \o Lit(<<"(">>)

\* the rust symbol of a match: visibility from whether group 1 took part
RustSym(stype, content, m) ==
    [type |-> stype, name |-> group(content, m, 2), language |-> "rust",
     visibility |-> IF HasGroup(m, 1) THEN "public" ELSE "private"]

\* RustParser.parse (lines 45-64): the same with or without a grammar engine
RustParse(content, path) ==
    LET Us(m) == Rel("IMPORTS", PathOrMemory(path), strip(group(content, m, 1)))
        Fn(m) == RustSym("function", content, m)
        St(m) == RustSym("struct", content, m)
        En(m) == RustSym("enum", content, m)
        Tr(m) == RustSym("trait", content, m)
    IN  ParseResult("rust", path,
                    MapSeq(finditer(RustFnRe, 2, content, 1), Fn)
                        \o MapSeq(finditer(RustItemRe(<<"s", "t", "r", "u", "c", "t">>), 2, content, 1), St)
                        \o MapSeq(finditer(RustItemRe(<<"e", "n", "u", "m">>), 2, content, 1), En)
                        \o MapSeq(finditer(RustItemRe(<<"t", "r", "a", "i", "t">>), 2, content, 1), Tr),
                    MapSeq(finditer(RustUseRe, 1, content, 1), Us),
                    <<>>)

\* bash_parser.py lines 43, 45, 49, 53
BashFuncRe ==
    Bol \o Star(Space) \o Group(1, Ident) \o Star(Space) \o Lit(<<"(", ")">>) \o Star(Space)
        \o Lit(<<"{">>)
BashFunctionKwRe ==
    Bol \o Star(Space) \o Lit(<<"f", "u", "n", "c", "t", "i", "o", "n">>) \o Plus(Space) \o Group(1, Ident) \o Star(Space)
        \o Lit(<<"{">>)
BashSourceRe ==
    Bol \o Star(Space) \o Alt(<<Lit(<<"s", "o", "u", "r", "c", "e">>), Lit(<<".">>)>>) \o Plus(Space)
        \o Group(1, PlusNot(Space))
BashVarRe == Bol \o Star(Space) \o Group(1, Ident) \o Lit(<<"=">>)

\* BashParser.parse (lines 39-56): the same with or without a grammar engine
BashParse(content, path) ==
    LET Fn(m) == sym("function", group(content, m, 1), "bash")
        Va(m) == sym("variable", group(content, m, 1), "bash")
        So(m) == Rel("SOURCES", PathOrMemory(path), group(content, m, 1))
    IN  ParseResult("bash", path,
                    MapSeq(finditer(BashFuncRe, 1, content, 1), Fn)
                        \o MapSeq(finditer(BashFunctionKwRe, 1, content, 1), Fn)
                        \o MapSeq(finditer(BashVarRe, 1, content, 1), Va),
                    MapSeq(finditer(BashSourceRe, 1, content, 1), So),
                    <<>>)

----------------------------------------------------------------------------
(* The extractors that walk the grammar engine's syntax tree.  A node is   *)
(* its type, the text it spans and its children; a node of the tree is     *)
(* addressed by the child indexes that lead to it from the root.           *)

Node(type, text, children) == [type |-> type, text |-> text, children |-> children]
\* a node without children: a named leaf, or an anonymous token, whose type
\* is its text
Leaf(type, text) == Node(type, text, <<>>)

RECURSIVE NodeAt(_, _)
NodeAt(tree, at) == IF at = <<>> THEN tree ELSE NodeAt(tree.children[Head(at)], Tail(at))

\* text_of(n)
text_of(n) == n.text

\* `for ch in n.children: if ch.type in types: x = text_of(ch); break`
FirstChildText(n, types) ==
    LET hits == { i \in 1..Len(n.children) : n.children[i].type \in types }
    IN  IF hits = {} THEN <<>>
        ELSE text_of(n.children[CHOOSE i \in hits : \A j \in hits : i <= j])

\* javascript_parser.py line 88
JsRequireCallRe ==
    Lit(<<"r", "e", "q", "u", "i", "r", "e", "(">>) \o Group(1, One(Quotes)) \o Group(2, DotPlusLazy) \o BackRef(1)
        \o Lit(<<")">>)

\* the walk of JavaScriptParser.parse (lines 65-92), pre-order
RECURSIVE JsWalk(_, _, _), JsWalkChildren(_, _, _, _)
JsWalk(acc, n, path) ==
    LET nt == n.type
        name == FirstChildText(n, {"identifier"})
        found == finditer(JsRequireCallRe, 2, text_of(n), 1)
        here ==
            IF nt = "function_declaration"
            THEN IF name # <<>>
                 THEN [acc EXCEPT !.symbols = Append(@, sym("function", name, "javascript"))]
                 ELSE acc
            ELSE IF nt = "class_declaration"
            THEN IF name # <<>>
                 THEN [acc EXCEPT !.symbols = Append(@, sym("class", name, "javascript"))]
                 ELSE acc
            ELSE IF nt = "import_declaration"
            THEN [acc EXCEPT !.relations =
                      Append(@, Rel("IMPORTS", PathOrMemory(path), strip(text_of(n))))]
            ELSE IF nt = "call_expression" /\ found # <<>>
            THEN [acc EXCEPT !.relations =
                      Append(@, Rel("REQUIRES", PathOrMemory(path),
                                    group(text_of(n), found[1], 2)))]
            ELSE acc
    IN  JsWalkChildren(here, n, path, 1)
JsWalkChildren(acc, n, path, i) ==
    IF i > Len(n.children) THEN acc
    ELSE JsWalkChildren(JsWalk(acc, n.children[i], path), n, path, i + 1)

\* JavaScriptParser.parse: the engine's tree when a grammar is bound, the
\* regular expressions otherwise
JavaScriptParse(inp, engine) ==
    IF engine
    THEN LET acc == JsWalk([symbols |-> <<>>, relations |-> <<>>], inp.tree, inp.path)
         IN  ParseResult("javascript", inp.path, acc.symbols, acc.relations, <<>>)
    ELSE JavaScriptFallback(inp.content, inp.path)

\* the walk of PHPParser.parse (lines 49-72), pre-order
RECURSIVE PhpWalk(_, _, _), PhpWalkChildren(_, _, _, _)
PhpWalk(acc, n, path) ==
    LET nt == n.type
        name == FirstChildText(n, {"name", "identifier"})
        here ==
            IF nt = "function_definition"
            THEN IF name # <<>>
                 THEN [acc EXCEPT !.symbols = Append(@, sym("function", name, "php"))]
                 ELSE acc
            ELSE IF nt \in {"class_declaration", "class_declaration_statement"}
            THEN IF name # <<>>
                 THEN [acc EXCEPT !.symbols = Append(@, sym("class", name, "php"))]
                 ELSE acc
            ELSE IF nt \in {"include_expression", "require_expression",
                            "include_once_expression", "require_once_expression"}
            THEN [acc EXCEPT !.relations =
                      Append(@, Rel("INCLUDES", PathOrMemory(path), strip(text_of(n))))]
            ELSE acc
    IN  PhpWalkChildren(here, n, path, 1)
PhpWalkChildren(acc, n, path, i) ==
    IF i > Len(n.children) THEN acc
    ELSE PhpWalkChildren(PhpWalk(acc, n.children[i], path), n, path, i + 1)

PHPParse(inp, engine) ==
    IF engine
    THEN LET acc == PhpWalk([symbols |-> <<>>, relations |-> <<>>], inp.tree, inp.path)
         IN  ParseResult("php", inp.path, acc.symbols, acc.relations, <<>>)
    ELSE PHPFallback(inp.content, inp.path)

----------------------------------------------------------------------------
(* VueParser *)

\* vue_parser.py lines 44, 48, 50, 60, 62, 69, 75
VueScriptRe ==
    LitI(<<"<", "s", "c", "r", "i", "p", "t">>) \o StarNot({">"}) \o Lit(<<">">>) \o Group(1, AnyStarLazy)
        \o LitI(<<"<", "/", "s", "c", "r", "i", "p", "t", ">">>)
VueTemplateRe ==
    LitI(<<"<", "t", "e", "m", "p", "l", "a", "t", "e">>) \o StarNot({">"}) \o Lit(<<">">>) \o Group(1, AnyStarLazy)
        \o LitI(<<"<", "/", "t", "e", "m", "p", "l", "a", "t", "e", ">">>)
VueTagRe ==
    Lit(<<"<">>) \o Star(Space)
        \o Group(1, One(Letters) \o Star(Letters \cup Digits \cup {"-"})) \o WordBoundary
VueComponentsRe ==
    Lit(<<"c", "o", "m", "p", "o", "n", "e", "n", "t", "s">>) \o Star(Space) \o Lit(<<":">>) \o Star(Space) \o Lit(<<"{">>)
        \o Group(1, AnyStarLazy) \o Lit(<<"}">>)
VueKeyRe ==
    Group(1, Alt(<<Ident,
                   Lit(<<"'">>) \o PlusNot({"'"}) \o Lit(<<"'">>),
                   Lit(<<"\"">>) \o PlusNot({"\""}) \o Lit(<<"\"">>)>>))
        \o Star(Space) \o Lit(<<":">>)
VueBuiltinRe == Alt(<<Lit(<<"r", "o", "u", "t", "e", "r">>), Lit(<<"k", "e", "e", "p", "-", "a", "l", "i", "v", "e">>), Lit(<<"t", "r", "a", "n", "s", "i", "t", "i", "o", "n">>)>>)
VueNameRe ==
    Lit(<<"n", "a", "m", "e">>) \o Star(Space) \o Lit(<<":">>) \o Star(Space) \o One(Quotes)
        \o Group(1, Plus(Letters \cup Digits \cup {"_", "-"})) \o One(Quotes)

html_std ==
    {<<"d", "i", "v">>, <<"s", "p", "a", "n">>, <<"a">>, <<"p">>, <<"i", "m", "g">>, <<"u", "l">>, <<"l", "i">>, <<"o", "l">>, <<"s", "e", "c", "t", "i", "o", "n">>, <<"h", "e", "a", "d", "e", "r">>,
     <<"f", "o", "o", "t", "e", "r">>, <<"m", "a", "i", "n">>, <<"n", "a", "v">>, <<"b", "u", "t", "t", "o", "n">>, <<"i", "n", "p", "u", "t">>, <<"t", "e", "x", "t", "a", "r", "e", "a">>, <<"s", "e", "l", "e", "c", "t">>, <<"o", "p", "t", "i", "o", "n">>,
     <<"t", "a", "b", "l", "e">>, <<"t", "h", "e", "a", "d">>, <<"t", "b", "o", "d", "y">>, <<"t", "r">>, <<"t", "d">>, <<"t", "h">>, <<"f", "o", "r", "m">>, <<"l", "a", "b", "e", "l">>, <<"s", "m", "a", "l", "l">>,
     <<"s", "t", "r", "o", "n", "g">>, <<"e", "m">>}

\* re.search(...).group(1), or "" without a match
SearchGroup1(re, s) ==
    LET found == finditer(re, 1, s, 1)
    IN  IF found = <<>> THEN <<>> ELSE group(s, found[1], 1)

\* str.endswith
EndsWith(s, t) == Len(s) >= Len(t) /\ SubSeq(s, Len(s) - Len(t) + 1, Len(s)) = t
\* path.split("/")[-1]
LastSegment(s) ==
    LET cuts == { i \in 1..Len(s) : s[i] = "/" }
    IN  IF cuts = {} THEN s
        ELSE SubSeq(s, (CHOOSE i \in cuts : \A j \in cuts : j <= i) + 1, Len(s))
\* str.replace(t, ""), for a non-empty t
RECURSIVE Remove(_, _)
Remove(s, t) ==
    IF Len(s) < Len(t) THEN s
    ELSE IF SubSeq(s, 1, Len(t)) = t THEN Remove(SubSeq(s, Len(t) + 1, Len(s)), t)
    ELSE <<Head(s)>> \o Remove(Tail(s), t)

\* `for x in a_set`: the elements in the order the interpreter's string
\* hashing gives them; order lists every element the hash places
SetIter(order, S) == SelectSeq(order, LAMBDA x : x \in S)

\* lines 60-64: the components registered in the script block
VueRegistered(script_code, path) ==
    LET objs == finditer(VueComponentsRe, 1, script_code, 1)
        Keys(m) ==
            LET inner == group(script_code, m, 1)
                Raw(k) == Rel("CHILD_COMPONENT", PathOrMemory(path),
                              lstrip(rstrip(strip(group(inner, k, 1)), Quotes), Quotes))
            IN  MapSeq(finditer(VueKeyRe, 1, inner, 1), Raw)
        Cat[i \in 0..Len(objs)] == IF i = 0 THEN <<>> ELSE Cat[i - 1] \o Keys(objs[i])
    IN  Cat[Len(objs)]

\* line 50: the set of the tag names opened in the template
used_tags(template_html) ==
    LET Tag(m) == group(template_html, m, 1)
    IN  Range(MapSeq(finditer(VueTagRe, 1, template_html, 1), Tag))

\* lines 67-69: the used tags that are neither standard HTML nor built in
CustomTags(tags) ==
    { tag \in tags :
        tag \notin html_std /\ ~MatchAt(VueBuiltinRe, 1, tag, 1, NoGroups(1)).ok }

\* lines 73-81: the name option of the script, else the file name
comp_name(script_code, path) ==
    LET named == finditer(VueNameRe, 1, script_code, 1)
    IN  IF named # <<>> THEN group(script_code, named[1], 1)
        ELSE IF path.has_path /\ path.text # <<>> /\ EndsWith(path.text, <<".", "v", "u", "e">>)
        THEN Remove(LastSegment(path.text), <<".", "v", "u", "e">>)
        ELSE <<>>

\* lines 52-85, once the two blocks have been cut out of the file
VueResult(path, order, script_code, js_result, registered, custom, name) ==
    LET Child(tag) == Rel("CHILD_COMPONENT", PathOrMemory(path), tag)
    IN  ParseResult("vue", path,
                    (IF script_code # <<>> THEN js_result.symbols ELSE <<>>)
                        \o (IF name # <<>> THEN <<sym("component", name, "vue")>>
                            ELSE <<>>),
                    (IF script_code # <<>> THEN js_result.relations \o registered
                     ELSE <<>>)
                        \o MapSeq(SetIter(order, custom), Child),
                    IF script_code # <<>> THEN js_result.diagnostics ELSE <<>>)

VueBlocks(inp, engine, order, script_code, template_html) ==
    VueResult(inp.path, order, script_code,
              JavaScriptParse([inp EXCEPT !.content = script_code], engine),
              VueRegistered(script_code, inp.path),
              CustomTags(used_tags(template_html)),
              comp_name(script_code, inp.path))

\* VueParser.parse (lines 40-85); the script block goes to the JavaScript extractor
VueParse(inp, engine, order) ==
    VueBlocks(inp, engine, order,
              SearchGroup1(VueScriptRe, inp.content),
              SearchGroup1(VueTemplateRe, inp.content))

----------------------------------------------------------------------------
(* PythonParser.parse with a grammar engine (python_parser.py lines 70-346) *)
(*                                                                         *)
(* The recursion of walk() is kept as an agenda: the calls of walk still   *)
(* to be made, and the returns of the frames that pushed a scope, in the   *)
(* order the interpreter reaches them.  A parse call in progress is a      *)
(* record c of the locals of parse().  None is the empty text where the    *)
(* code only tests truth (name, current_class).                            *)

Reverse(q) == [i \in 1..Len(q) |-> q[Len(q) + 1 - i]]
Front(q) == SubSeq(q, 1, Len(q) - 1)
Last(q) == q[Len(q)]

\* get_scope_id (lines 86-88)
get_scope_id(c) == c.scope_stack[Len(c.scope_stack)]

\* f"{a}::{b}"
Qualified(a, b) == a \o <<":", ":">> \o b

\* the siblings before the node at `at`, nearest first (the prev_sibling chain)
PrevSiblings(tree, at) ==
    IF at = <<>> THEN <<>>
    ELSE Reverse(SubSeq(NodeAt(tree, Front(at)).children, 1, Last(at) - 1))

\* lines 125-131 and 164-170: the decorator names among the previous siblings
Decorators(tree, at) ==
    LET decs == SelectSeq(PrevSiblings(tree, at), LAMBDA p : p.type = "decorator")
    IN  [i \in 1..Len(decs) |-> lstrip(strip(text_of(decs[i])), {"@"})]

\* lines 121-123
IsAsync(tree, at) ==
    LET prev == PrevSiblings(tree, at)
    IN  prev # <<>> /\ prev[1].type = "async"

\* extract_class_bases (lines 90-109): the bases, and those that are a Protocol or an ABC
ClassBases(class_node) ==
    LET Of(ch) ==
            IF ch.type = "argument_list"
            THEN LET bs == SelectSeq(ch.children,
                                     LAMBDA b : b.type \in {"identifier", "attribute"}
                                                /\ text_of(b) # <<>>)
                 IN  [i \in 1..Len(bs) |-> text_of(bs[i])]
            ELSE <<>>
        Cat[i \in 0..Len(class_node.children)] ==
            IF i = 0 THEN <<>> ELSE Cat[i - 1] \o Of(class_node.children[i])
    IN  Cat[Len(class_node.children)]
IsProtocolOrABC(base_name) ==
    IsSubstring(<<"P", "r", "o", "t", "o", "c", "o", "l">>, base_name) \/ IsSubstring(<<"A", "B", "C">>, base_name)

\* `for c in n.children: walk(c, parent_type)`
WalkChildren(n, at, parent_type) ==
    [i \in 1..Len(n.children) |->
        [op |-> "walk", at |-> Append(at, i), parent_type |-> parent_type]]

Emit(c, rels) == [c EXCEPT !.relations = @ \o rels]

\* lines 115-157: walk() on a function_definition that has a name
EnterFunction(c, n, at, name) ==
    LET func_id == Qualified(get_scope_id(c), name)
        decorators == Decorators(c.inp.tree, at)
        overrides ==
            IF c.current_class # <<>> /\ c.current_class \in DOMAIN c.class_methods
               /\ name \in c.class_methods[c.current_class]
            THEN <<Rel("OVERRIDES", func_id, Qualified(c.current_class, name))>>
            ELSE <<>>
    IN  [c EXCEPT
            !.symbols = Append(@, [type |-> "function", name |-> name, language |-> "python",
                                   id |-> func_id, file |-> c.inp.path,
                                   is_async |-> IsAsync(c.inp.tree, at)]),
            !.relations = @ \o [i \in 1..Len(decorators) |->
                                    Rel("DECORATES", decorators[i], func_id)]
                            \o overrides,
            !.scope_stack = Append(@, func_id),
            !.agenda = WalkChildren(n, at, "function")
                           \o <<[op |-> "leave_function", pushed |-> func_id]>> \o @]

\* the id a class definition is given (line 178)
ClassScopeId(c, name) == Qualified(PathStr(c.inp.path), name)

\* lines 159-207: walk() on a class_definition that has a name
EnterClass(c, n, at, name) ==
    LET class_id == ClassScopeId(c, name)
        decorators == Decorators(c.inp.tree, at)
        bases == ClassBases(n)
    IN  [c EXCEPT
            !.symbols = Append(@, [type |-> "class", name |-> name, language |-> "python",
                                   id |-> class_id, file |-> c.inp.path]),
            !.relations = @ \o [i \in 1..Len(decorators) |->
                                    Rel("DECORATES", decorators[i], class_id)]
                            \o [i \in 1..Len(bases) |->
                                    IF IsProtocolOrABC(bases[i])
                                    THEN Rel("IMPLEMENTS", class_id, bases[i])
                                    ELSE Rel("EXTENDS", class_id, bases[i])],
            !.current_class = class_id,
            !.class_methods = IF class_id \in DOMAIN @ THEN @ ELSE Put(@, class_id, {}),
            !.scope_stack = Append(@, class_id),
            !.agenda = WalkChildren(n, at, "class")
                           \o <<[op |-> "leave_class", pushed |-> class_id,
                                 prev_class |-> c.current_class]>> \o @]

PyKeywords == {<<"s", "e", "l", "f">>, <<"c", "l", "s">>, <<"d", "e", "f">>, <<"c", "l", "a", "s", "s">>, <<"r", "e", "t", "u", "r", "n">>, <<"i", "f">>, <<"e", "l", "s", "e">>, <<"f", "o", "r">>, <<"w", "h", "i", "l", "e">>}

\* lines 291-294: the text of the first identifier, attribute or call child
\* of a with_item; None when it has no such child
ItemExpr(item) ==
    LET typed == SelectSeq(item.children,
                           LAMBDA e : e.type \in {"identifier", "attribute", "call"})
    IN  IF typed = <<>> THEN <<>> ELSE text_of(typed[1])

\* lines 284-298: the inner loop stops at the first such child of each
\* with_item whatever its text; the search ends at the first with_item that
\* gave a non-empty text
WithContext(n) ==
    LET Exprs(item) ==
            IF item.type = "with_item" /\ ItemExpr(item) # <<>>
            THEN <<ItemExpr(item)>>
            ELSE <<>>
        OfClause(ch) ==
            LET Cat[i \in 0..Len(ch.children)] ==
                    IF i = 0 THEN <<>> ELSE Cat[i - 1] \o Exprs(ch.children[i])
            IN  IF ch.type = "with_clause" THEN Cat[Len(ch.children)] ELSE <<>>
        All[i \in 0..Len(n.children)] ==
            IF i = 0 THEN <<>> ELSE All[i - 1] \o OfClause(n.children[i])
        found == All[Len(n.children)]
    IN  IF found = <<>> THEN <<>> ELSE found[1]

\* lines 304-310: var_name is the text of the last identifier or pattern_list child
AssignedName(n) ==
    LET hits == { i \in 1..Len(n.children) :
                    n.children[i].type \in {"identifier", "pattern_list"} }
    IN  IF hits = {} THEN <<>>
        ELSE text_of(n.children[CHOOSE i \in hits : \A j \in hits : j <= i])

\* lines 319-328: the attribute is a child of an assignment, before its "="
IsWrite(tree, at) ==
    /\ at # <<>>
    /\ LET parent == NodeAt(tree, Front(at))
       IN  /\ parent.type = "assignment"
           /\ \A j \in 1..(Last(at) - 1) : parent.children[j].type # "="

\* lines 209-340: the relations walk() records on a node of any other type
NodeRelations(c, n, at, parent_type) ==
    LET nt == n.type
        scope == get_scope_id(c)
        inner == Len(c.scope_stack) > 1
        func_name == FirstChildText(n, {"identifier", "attribute"})
        raised == FirstChildText(n, {"identifier", "attribute", "call"})
        caught == FirstChildText(n, {"identifier", "attribute"})
        yielded == FirstChildText(n, {"identifier", "attribute", "call", "string"})
        returned == FirstChildText(n, {"identifier", "attribute", "call", "string",
                                       "integer", "boolean"})
    IN  CASE nt \in {"import_statement", "import_from_statement"} ->
                <<Rel("IMPORTS", PathOrMemory(c.inp.path), strip(text_of(n)))>>
          [] nt = "call" ->
                IF func_name # <<>> /\ inner
                THEN IF func_name[1] \in Uppercase
                     THEN <<Rel("INSTANTIATES", scope, func_name)>>
                     ELSE <<Rel("CALLS", scope, func_name)>>
                ELSE <<>>
          [] nt = "raise_statement" ->
                IF raised # <<>> /\ inner THEN <<Rel("RAISES", scope, raised)>> ELSE <<>>
          [] nt = "except_clause" ->
                IF caught # <<>> /\ inner THEN <<Rel("CATCHES", scope, caught)>> ELSE <<>>
          [] nt = "yield" ->
                IF inner
                THEN <<Rel("YIELDS", scope, IF yielded # <<>> THEN yielded ELSE <<"v", "a", "l", "u", "e">>)>>
                ELSE <<>>
          [] nt = "return_statement" ->
                IF inner /\ returned # <<>> THEN <<Rel("RETURNS", scope, returned)>> ELSE <<>>
          [] nt = "await" ->
                IF raised # <<>> /\ inner THEN <<Rel("ASYNC_AWAITS", scope, raised)>> ELSE <<>>
          [] nt = "with_statement" ->
                IF WithContext(n) # <<>> /\ inner
                THEN <<Rel("WITH_CONTEXT", scope, WithContext(n))>>
                ELSE <<>>
          [] nt = "assignment" ->
                IF AssignedName(n) # <<>> /\ inner
                THEN <<Rel("DEFINES", scope, AssignedName(n))>>
                ELSE <<>>
          [] nt = "attribute" ->
                IF inner
                THEN IF IsWrite(c.inp.tree, at)
                     THEN <<Rel("WRITES", scope, text_of(n))>>
                     ELSE <<Rel("READS", scope, text_of(n))>>
                ELSE <<>>
          [] nt = "identifier" /\ parent_type \in {"function", "class"} ->
                IF inner /\ text_of(n) \notin PyKeywords
                THEN <<Rel("USES", scope, text_of(n))>>
                ELSE <<>>
          [] OTHER -> <<>>

\* walk(n, parent_type) up to its recursive calls (lines 111-344)
WalkNode(c, at, parent_type) ==
    LET n == NodeAt(c.inp.tree, at)
        name == FirstChildText(n, {"identifier"})
        onward == [c EXCEPT !.agenda = WalkChildren(n, at, parent_type) \o @]
    IN  IF n.type = "function_definition"
        THEN IF name # <<>> THEN EnterFunction(c, n, at, name) ELSE onward
        ELSE IF n.type = "class_definition"
        THEN IF name # <<>> THEN EnterClass(c, n, at, name) ELSE onward
        ELSE Emit(onward, NodeRelations(c, n, at, parent_type))

LeaveFunctionKeep(c, frame) == c
\* lines 156-157: scope_stack.pop(); return
LeaveFunction(c, frame) == [c EXCEPT !.scope_stack = Front(@)]

\* lines 205-207: scope_stack.pop(); current_class = prev_class; return
LeaveClass(c, frame) ==
    [c EXCEPT !.scope_stack = Front(@), !.current_class = frame.prev_class]

\* the next thing the interpreter does in walk(root)
WalkStep(c) ==
    LET item == Head(c.agenda)
        rest == [c EXCEPT !.agenda = Tail(@)]
    IN  CASE item.op = "walk" -> WalkNode(rest, item.at, item.parent_type)
          [] item.op = "leave_function" -> LeaveFunction(rest, item)
          [] item.op = "leave_class" -> LeaveClass(rest, item)

\* lines 67-81 and 346: the locals of parse() when walk(root) is called
PythonBegin(inp) ==
    [inp |-> inp,
     scope_stack |-> <<PathOrMemory(inp.path)>>,
     class_methods |-> <<>>,
     current_class |-> <<>>,
     symbols |-> <<>>, relations |-> <<>>, diagnostics |-> <<>>,
     agenda |-> <<[op |-> "walk", at |-> <<>>, parent_type |-> "None"]>>]

\* line 357
PythonReturn(c) ==
    ParseResult("python", c.inp.path, c.symbols, c.relations, c.diagnostics)

----------------------------------------------------------------------------
(* The texts and syntax trees the extractors are run on *)

\* statements of a generated python module
MaxStmts == 2
\* parse calls made with the same arguments
MaxCalls == 2
\* interpreter processes that make them
MaxProcs == 2

Identifier(name) == Leaf("identifier", name)
PyArgs(args) ==
    Node("argument_list", <<>>, <<Leaf("(", <<"(">>)>> \o args \o <<Leaf(")", <<")">>)>>)
PyCall(fn) == Node("call", fn.text \o <<"(", ")">>, <<fn, PyArgs(<<>>)>>)
PyAttribute(obj, attr) ==
    Node("attribute", obj \o <<".">> \o attr,
         <<Identifier(obj), Leaf(".", <<".">>), Identifier(attr)>>)
PyExpr(e) == Node("expression_statement", e.text, <<e>>)
PyPass == Node("pass_statement", <<"p", "a", "s", "s">>, <<Leaf("pass", <<"p", "a", "s", "s">>)>>)
PyBlock(stmts) == Node("block", <<>>, stmts)
PyParams(names) ==
    Node("parameters", <<>>,
         <<Leaf("(", <<"(">>)>> \o [i \in 1..Len(names) |-> Identifier(names[i])]
             \o <<Leaf(")", <<")">>)>>)
PyFunction(name, params, body) ==
    Node("function_definition", <<>>,
         <<Leaf("def", <<"d", "e", "f">>), Identifier(name), PyParams(params), Leaf(":", <<":">>),
           PyBlock(body)>>)
PyClass(name, bases, body) ==
    Node("class_definition", <<>>,
         <<Leaf("class", <<"c", "l", "a", "s", "s">>), Identifier(name)>>
             \o (IF bases = <<>> THEN <<>>
                 ELSE <<PyArgs([i \in 1..Len(bases) |-> Identifier(bases[i])])>>)
             \o <<Leaf(":", <<":">>), PyBlock(body)>>)
PyDecorated(dec, def) ==
    Node("decorated_definition", <<>>,
         <<Node("decorator", <<"@">> \o dec, <<Leaf("@", <<"@">>), Identifier(dec)>>), def>>)
PyAssign(left, right) ==
    PyExpr(Node("assignment", left.text \o <<" ", "=", " ">> \o right.text,
                <<left, Leaf("=", <<"=">>), right>>))
PyReturn(e) == Node("return_statement", <<"r", "e", "t", "u", "r", "n", " ">> \o e.text, <<Leaf("return", <<"r", "e", "t", "u", "r", "n">>), e>>)
PyRaise(e) == Node("raise_statement", <<"r", "a", "i", "s", "e", " ">> \o e.text, <<Leaf("raise", <<"r", "a", "i", "s", "e">>), e>>)
PyYield(e) == PyExpr(Node("yield", <<"y", "i", "e", "l", "d", " ">> \o e.text, <<Leaf("yield", <<"y", "i", "e", "l", "d">>), e>>))
PyAwait(e) == PyExpr(Node("await", <<"a", "w", "a", "i", "t", " ">> \o e.text, <<Leaf("await", <<"a", "w", "a", "i", "t">>), e>>))
PyTry(body, exc, handler) ==
    Node("try_statement", <<>>,
         <<Leaf("try", <<"t", "r", "y">>), Leaf(":", <<":">>), PyBlock(body),
           Node("except_clause", <<>>,
                <<Leaf("except", <<"e", "x", "c", "e", "p", "t">>), Identifier(exc), Leaf(":", <<":">>),
                  PyBlock(handler)>>)>>)
PyWith(e, body) ==
    Node("with_statement", <<>>,
         <<Leaf("with", <<"w", "i", "t", "h">>),
           Node("with_clause", e.text, <<Node("with_item", e.text, <<e>>)>>),
           Leaf(":", <<":">>), PyBlock(body)>>)
\* with <e> as <alias>: the with_item holds both expressions
PyWithAs(e, alias, body) ==
    Node("with_statement", <<>>,
         <<Leaf("with", <<"w", "i", "t", "h">>),
           Node("with_clause", e.text \o <<" ", "a", "s", " ">> \o alias.text,
                <<Node("with_item", e.text \o <<" ", "a", "s", " ">> \o alias.text,
                       <<e, Leaf("as", <<"a", "s">>), alias>>)>>),
           Leaf(":", <<":">>), PyBlock(body)>>)
PyImport(mod) ==
    Node("import_statement", <<"i", "m", "p", "o", "r", "t", " ">> \o mod,
         <<Leaf("import", <<"i", "m", "p", "o", "r", "t">>), Node("dotted_name", mod, <<Identifier(mod)>>)>>)

\* def f(): g(); A(); with  as f: pass; return x  (the context expression is
\* missing from the text)
StmtFunction ==
    PyFunction(<<"f">>, <<>>,
               <<PyExpr(PyCall(Identifier(<<"g">>))), PyExpr(PyCall(Identifier(<<"A">>))),
                 PyWithAs(Identifier(<<>>), Identifier(<<"f">>), <<PyPass>>),
                 PyReturn(Identifier(<<"x">>))>>)
\* class A(B, ABC): def m(self): self.x = y;  def m(self): pass
StmtClass ==
    PyClass(<<"A">>, <<<<"B">>, <<"A", "B", "C">>>>,
            <<PyFunction(<<"m">>, <<<<"s", "e", "l", "f">>>>,
                         <<PyAssign(PyAttribute(<<"s", "e", "l", "f">>, <<"x">>), Identifier(<<"y">>))>>),
              PyFunction(<<"m">>, <<<<"s", "e", "l", "f">>>>, <<PyPass>>)>>)
\* class B: class A: def m(): o.n()
StmtNestedClass ==
    PyClass(<<"B">>, <<>>,
            <<PyClass(<<"A">>, <<>>,
                      <<PyFunction(<<"m">>, <<>>,
                                   <<PyExpr(PyCall(PyAttribute(<<"o">>, <<"n">>)))>>)>>)>>)
\* def f(): def g(): h();  class A: pass
StmtNestedFunction ==
    PyFunction(<<"f">>, <<>>,
               <<PyFunction(<<"g">>, <<>>, <<PyExpr(PyCall(Identifier(<<"h">>)))>>),
                 PyClass(<<"A">>, <<>>, <<PyPass>>)>>)
\* @d def g(): try: raise E() except E: await y(); with o() : yield x
StmtDecorated ==
    PyDecorated(<<"d">>,
        PyFunction(<<"g">>, <<>>,
                   <<PyTry(<<PyRaise(PyCall(Identifier(<<"E">>)))>>, <<"E">>,
                           <<PyAwait(PyCall(Identifier(<<"y">>)))>>),
                     PyWith(PyCall(Identifier(<<"o">>)), <<PyYield(Identifier(<<"x">>))>>)>>))
\* import os; h() at module level; def (): pass  (the name is missing from the text)
StmtImport == PyImport(<<"o", "s">>)
StmtModuleCall == PyExpr(PyCall(Identifier(<<"h">>)))
StmtNameless == PyFunction(<<>>, <<>>, <<PyExpr(PyCall(Identifier(<<"g">>)))>>)

PyStmts ==
    <<StmtFunction, StmtClass, StmtNestedClass, StmtNestedFunction, StmtDecorated,
      StmtImport, StmtModuleCall, StmtNameless>>

\* the statements of PyStmts at the positions in S, in the order of PyStmts
StmtsAt(S) ==
    LET Nth[i \in 1..Cardinality(S)] ==
            CHOOSE k \in S : Cardinality({ j \in S : j < k }) = i - 1
    IN  [i \in 1..Cardinality(S) |-> PyStmts[Nth[i]]]

\* the bodies of the modules: at most MaxStmts of the statements
PyBodies ==
    { StmtsAt(S) : S \in { T \in SUBSET (1..Len(PyStmts)) : Cardinality(T) <= MaxStmts } }

PyModule(stmts) == Node("module", <<>>, stmts)

\* A parse call's arguments: the text, the path, and the tree the grammar
\* engine returns for the text (used when a grammar is bound)
Input(content, path, tree) == [content |-> content, path |-> path, tree |-> tree]
NoTree == Node("none", <<>>, <<>>)

PyPath == APath(<<"b", ".", "p", "y">>)
PyTreeInputs ==
    { Input(<<>>, PyPath, PyModule(stmts)) : stmts \in PyBodies }
        \cup { Input(<<>>, NoPath, PyModule(<<s>>)) : s \in {StmtFunction, StmtNestedClass} }
PyTextInputs ==
    { Input(<<"d", "e", "f", " ", "f", "(", "x", ")", ":", "\n", " ", " ", "p", "a", "s", "s", "\n", "c", "l", "a", "s", "s", " ", "A", "(", "B", ")", ":", "\n", " ", "d", "e", "f", " ", "m", "(", ")", ":", " ", "p", "a", "s", "s", "\n", "i", "m", "p", "o", "r", "t", " ", "o", "s", "\n">>, PyPath, NoTree),
      Input(<<"f", "r", "o", "m", " ", "a", ".", "b", " ", "i", "m", "p", "o", "r", "t", " ", "c", "\n", " ", "d", "e", "f", "x", "(", "\n", "c", "l", "a", "s", "s", " ", "C">>, NoPath, NoTree) }

\* function f() {}  class A {}  import x from 'y'  require('w')
JsTree ==
    Node("program", <<>>,
         <<Node("function_declaration", <<>>,
                <<Leaf("function", <<"f", "u", "n", "c", "t", "i", "o", "n">>), Identifier(<<"f">>),
                  Node("formal_parameters", <<"(", ")">>, <<>>), Node("statement_block", <<"{", "}">>, <<>>)>>),
           Node("class_declaration", <<>>,
                <<Leaf("class", <<"c", "l", "a", "s", "s">>), Identifier(<<"A">>), Node("class_body", <<"{", "}">>, <<>>)>>),
           Node("import_statement", <<"i", "m", "p", "o", "r", "t", " ", "x", " ", "f", "r", "o", "m", " ", "'", "y", "'">>, <<>>),
           Node("expression_statement", <<"r", "e", "q", "u", "i", "r", "e", "(", "'", "w", "'", ")">>,
                <<Node("call_expression", <<"r", "e", "q", "u", "i", "r", "e", "(", "'", "w", "'", ")">>,
                       <<Identifier(<<"r", "e", "q", "u", "i", "r", "e">>),
                         Node("arguments", <<"(", "'", "w", "'", ")">>, <<Leaf("string", <<"'", "w", "'">>)>>)>>)>>)>>)
JsText == <<"f", "u", "n", "c", "t", "i", "o", "n", " ", "f", "(", ")", " ", "{", "}", "\n", "c", "l", "a", "s", "s", " ", "A", " ", "{", "}", "\n", "i", "m", "p", "o", "r", "t", " ", "x", " ", "f", "r", "o", "m", " ", "'", "y", "'", "\n", "r", "e", "q", "u", "i", "r", "e", "(", "'", "w", "'", ")">>
JsInputs ==
    { Input(JsText, APath(<<"a", ".", "j", "s">>), JsTree), Input(<<"c", "l", "a", "s", "s", " ", " ", "B", "\n", "f", "u", "n", "c", "t", "i", "o", "n", "x", "(">>, NoPath, NoTree) }

\* <?php function f() {} class A {} include 'x.php';
PhpTree ==
    Node("program", <<>>,
         <<Leaf("php_tag", <<"<", "?", "p", "h", "p">>),
           Node("function_definition", <<>>,
                <<Leaf("function", <<"f", "u", "n", "c", "t", "i", "o", "n">>), Leaf("name", <<"f">>),
                  Node("formal_parameters", <<"(", ")">>, <<>>),
                  Node("compound_statement", <<"{", "}">>, <<>>)>>),
           Node("class_declaration", <<>>,
                <<Leaf("class", <<"c", "l", "a", "s", "s">>), Leaf("name", <<"A">>),
                  Node("declaration_list", <<"{", "}">>, <<>>)>>),
           Node("expression_statement", <<"i", "n", "c", "l", "u", "d", "e", " ", "'", "x", ".", "p", "h", "p", "'", ";">>,
                <<Node("include_expression", <<"i", "n", "c", "l", "u", "d", "e", " ", "'", "x", ".", "p", "h", "p", "'">>,
                       <<Leaf("include", <<"i", "n", "c", "l", "u", "d", "e">>), Leaf("string", <<"'", "x", ".", "p", "h", "p", "'">>)>>)>>)>>)
PhpText == <<"<", "?", "p", "h", "p", "\n", "f", "u", "n", "c", "t", "i", "o", "n", " ", "f", "(", ")", " ", "{", "}", "\n", "c", "l", "a", "s", "s", " ", "A", " ", "{", "}", "\n", "i", "n", "c", "l", "u", "d", "e", " ", "'", "x", ".", "p", "h", "p", "'", ";">>
PhpInputs ==
    { Input(PhpText, APath(<<"a", ".", "p", "h", "p">>), PhpTree),
      Input(<<"r", "e", "q", "u", "i", "r", "e", "_", "o", "n", "c", "e", "(", "\"", "y", "\"", ")", ";", " ", "c", "l", "a", "s", "s", "y">>, NoPath, NoTree) }

CInputs ==
    { Input(<<"#", "i", "n", "c", "l", "u", "d", "e", " ", "<", "a", ".", "h", ">", "\n", "i", "n", "t", " ", "m", "a", "i", "n", "(", "v", "o", "i", "d", ")", " ", "{", "\n", "}", "\n", "s", "t", "r", "u", "c", "t", " ", "S", " ", "{", "\n", "}", ";">>, APath(<<"a", ".", "c">>), NoTree),
      Input(<<"i", "n", "t", " ", "x", ";">>, NoPath, NoTree) }
RustInputs ==
    { Input(<<"u", "s", "e", " ", "a", ":", ":", "b", ";", "\n", "p", "u", "b", " ", "f", "n", " ", "f", "(", ")", " ", "{", "}", "\n", "s", "t", "r", "u", "c", "t", " ", "S", ";", "\n", "e", "n", "u", "m", " ", "E", " ", "{", "}", "\n", "p", "u", "b", " ", "t", "r", "a", "i", "t", " ", "T", " ", "{", "}">>, APath(<<"a", ".", "r", "s">>),
            NoTree),
      Input(<<"f", "n", " ", "g", "(">>, NoPath, NoTree) }
BashInputs ==
    { Input(<<"f", "(", ")", " ", "{", "\n", "}", "\n", "f", "u", "n", "c", "t", "i", "o", "n", " ", "g", " ", "{", "\n", "}", "\n", "X", "=", "1", "\n", ".", " ", "b", ".", "s", "h">>, APath(<<"a", ".", "s", "h">>), NoTree),
      Input(<<"e", "c", "h", "o">>, NoPath, NoTree) }

\* the script block of the first vue text, as the grammar engine reads it
VueScriptTree ==
    Node("program", <<>>,
         <<Node("function_declaration", <<>>,
                <<Leaf("function", <<"f", "u", "n", "c", "t", "i", "o", "n">>), Identifier(<<"f">>),
                  Node("formal_parameters", <<"(", ")">>, <<>>), Node("statement_block", <<"{", "}">>, <<>>)>>)>>)
VueInputs ==
    { Input(<<"<", "s", "c", "r", "i", "p", "t", ">", "f", "u", "n", "c", "t", "i", "o", "n", " ", "f", "(", ")", " ", "{", "}", "<", "/", "s", "c", "r", "i", "p", "t", ">", "<", "t", "e", "m", "p", "l", "a", "t", "e", ">", "<", "F", "o", "o", "/", ">", "<", "B", "a", "r", "/", ">", "<", "/", "t", "e", "m", "p", "l", "a", "t", "e", ">">>,
            APath(<<"s", "r", "c", "/", "M", "y", ".", "v", "u", "e">>), VueScriptTree),
      Input(<<"<", "t", "e", "m", "p", "l", "a", "t", "e", ">", "<", "d", "i", "v", ">", "<", "B", "a", "r", "/", ">", "<", "F", "o", "o", "/", ">", "<", "B", "a", "r", "/", ">", "<", "/", "d", "i", "v", ">", "<", "/", "t", "e", "m", "p", "l", "a", "t", "e", ">">>, APath(<<"a", ".", "v", "u", "e">>), NoTree),
      Input(<<"<", "s", "c", "r", "i", "p", "t", ">", "c", "o", "m", "p", "o", "n", "e", "n", "t", "s", ":", " ", "{", " ", "F", "o", "o", ",", " ", "'", "B", "a", "r", "'", ":", " ", "B", " ", "}", ",", " ", "n", "a", "m", "e", ":", " ", "'", "n", "'", "<", "/", "s", "c", "r", "i", "p", "t", ">">>, NoPath,
            Node("program", <<>>, <<>>)),
      Input(<<"<", "t", "e", "m", "p", "l", "a", "t", "e", ">", "<", "p", ">", "<", "/", "p", ">", "<", "/", "t", "e", "m", "p", "l", "a", "t", "e", ">">>, NoPath, NoTree) }

\* the component tags of the vue texts, and the orders in which a set of
\* them can be iterated in one interpreter process
TemplateTags == {<<"F", "o", "o">>, <<"B", "a", "r">>}
HashOrders ==
    { q \in [1..Cardinality(TemplateTags) -> TemplateTags] : Range(q) = TemplateTags }

Extractors == {"python", "javascript", "php", "c", "rust", "bash", "vue"}

\* whether the call has a tree to walk when a grammar is bound
InputsOf(parser, engine) ==
    CASE parser = "python" -> IF engine THEN PyTreeInputs ELSE PyTextInputs
      [] parser = "javascript" -> IF engine THEN {i \in JsInputs : i.tree # NoTree} ELSE JsInputs
      [] parser = "php" -> IF engine THEN {i \in PhpInputs : i.tree # NoTree} ELSE PhpInputs
      [] parser = "c" -> CInputs
      [] parser = "rust" -> RustInputs
      [] parser = "bash" -> BashInputs
      [] parser = "vue" -> IF engine THEN {i \in VueInputs : i.tree # NoTree} ELSE VueInputs

\* self.ts_lang and Parser: a grammar is bound and the engine is importable
CallArgs ==
    { [parser |-> p, engine |-> e, inp |-> i] :
        p \in Extractors, e \in BOOLEAN, i \in UNION { InputsOf(q, b) : q \in Extractors, b \in BOOLEAN } }

Calls == { a \in CallArgs : a.inp \in InputsOf(a.parser, a.engine) }

\* parse() of the extractors that return without a tree walk of their own
Parse(a, order) ==
    CASE a.parser = "python" -> PythonFallback(a.inp.content, a.inp.path)
      [] a.parser = "javascript" -> JavaScriptParse(a.inp, a.engine)
      [] a.parser = "php" -> PHPParse(a.inp, a.engine)
      [] a.parser = "c" -> CParse(a.inp.content, a.inp.path)
      [] a.parser = "rust" -> RustParse(a.inp.content, a.inp.path)
      [] a.parser = "bash" -> BashParse(a.inp.content, a.inp.path)
      [] a.parser = "vue" -> VueParse(a.inp, a.engine, order)

----------------------------------------------------------------------------
(* The extractors' process *)

Idle == [running |-> FALSE]

\* an interpreter starts (the string hashing is seeded) and calls parse
PInit ==
    /\ ps \in { [order |-> o, procs |-> 1, call |-> Idle, calls |-> <<>>] : o \in HashOrders }
    /\ rs = <<>>
    /\ ws = <<>>
    /\ wk = <<>>
    /\ prior = <<>>
    /\ fs = <<>>
    /\ pc = "idle"
    /\ todo = <<>>
    /\ nodes = <<>>
    /\ edges = <<>>
    /\ node_ids = <<>>
    /\ symbols = <<>>
    /\ total_items = 0
    /\ processed_items = 0
    /\ last_percent = -1
    /\ next_id = 0
    /\ pushed = <<>>
    /\ requests = <<>>
    /\ all_nodes = <<>>
    /\ all_edges = <<>>
    /\ fails = 0
    /\ pending_full = FALSE

\* the arguments the next call can have: any, and then the same again
NextCalls == IF ps.calls = <<>> THEN Calls ELSE {ps.calls[1].args}

Done(a, result) == [args |-> a, proc |-> ps.procs, result |-> result]

\* a new interpreter process takes over (the service restarts, or the resolver
\* script runs after the service): the extractors are built again
Restart ==
    /\ ~ps.call.running /\ ps.procs < MaxProcs
    /\ \E o \in HashOrders : ps' = [ps EXCEPT !.order = o, !.procs = @ + 1]
    /\ UNCHANGED <<tvars, rs, ws, wk, prior>>

\* parse() of an extractor, from call to return
ExtractorParse ==
    /\ ~ps.call.running /\ Len(ps.calls) < MaxCalls
    /\ \E a \in NextCalls :
         /\ ~(a.parser = "python" /\ a.engine)
         /\ ps' = [ps EXCEPT !.calls = Append(@, Done(a, Parse(a, ps.order)))]
    /\ UNCHANGED <<tvars, rs, ws, wk, prior>>

\* PythonParser.parse with a grammar: the call, up to walk(root)
PythonParseBegin ==
    /\ ~ps.call.running /\ Len(ps.calls) < MaxCalls
    /\ \E a \in NextCalls :
         /\ a.parser = "python" /\ a.engine
         /\ ps' = [ps EXCEPT !.call = [running |-> TRUE, args |-> a, c |-> PythonBegin(a.inp)]]
    /\ UNCHANGED <<tvars, rs, ws, wk, prior>>

\* one step of walk(root)
PythonWalk ==
    /\ ps.call.running /\ ps.call.c.agenda # <<>>
    /\ ps' = [ps EXCEPT !.call.c = WalkStep(@)]
    /\ UNCHANGED <<tvars, rs, ws, wk, prior>>

\* walk(root) has returned: parse returns its ParseResult
PythonParseReturn ==
    /\ ps.call.running /\ ps.call.c.agenda = <<>>
    /\ ps' = [ps EXCEPT !.call = Idle,
                        !.calls = Append(@, Done(ps.call.args, PythonReturn(ps.call.c)))]
    /\ UNCHANGED <<tvars, rs, ws, wk, prior>>

PNext ==
    \/ Restart
    \/ ExtractorParse
    \/ PythonParseBegin
    \/ PythonWalk
    \/ PythonParseReturn

SpecExtractors == PInit /\ [][PNext]_vars

----------------------------------------------------------------------------
(* Call resolution over the python extractor's relations *)

\* a CallResolver whose load_symbols got the entries from the store
LoadedResolver(entries) ==
    load_symbols([symbol_index |-> <<>>, edges |-> <<>>, dropped |-> 0,
                  response |-> [status |-> "ok", symbols |-> entries]])

\* lines 62-73: the edges resolve_calls gets from the parse result of one file
ResolvedEdges(entries, result) ==
    ResolveRels(LoadedResolver(entries), result.relations, 1).edges

\* the parse calls that have returned
DoneCalls == { ps.calls[i] : i \in 1..Len(ps.calls) }
\* those of the python extractor with a grammar bound
PyDoneCalls == { d \in DoneCalls : d.args.parser = "python" /\ d.args.engine }

\* C11: for a file whose function f calls g(), a symbol index keyed by name
\* that holds f and g makes the resolver emit exactly one CALLS edge, from
\* f's id to g's id; an index without g makes it emit none.
C11_CallEdgeResolved ==
    \A d \in PyDoneCalls :
        d.args.inp.tree.children = <<StmtFunction>> =>
            LET both == ResolvedEdges(<<Entry(<<"f">>, 1), Entry(<<"g">>, 2)>>, d.result)
                only_f == ResolvedEdges(<<Entry(<<"f">>, 1)>>, d.result)
            IN  /\ Len(both) = 1
                /\ both[1].source_id = 1 /\ both[1].target_id = 2
                /\ only_f = <<>>

----------------------------------------------------------------------------
(* Scopes of the python extractor's tree walk *)

Distinct(q) == \A a, b \in 1..Len(q) : a # b => q[a] # q[b]

\* the names of the definitions in a subtree, each qualified by the names of
\* the definitions around it
RECURSIVE NestedNames(_, _)
NestedNames(n, scope) ==
    LET name == FirstChildText(n, {"identifier"})
        is_def == n.type \in {"function_definition", "class_definition"} /\ name # <<>>
        inner == IF is_def THEN Qualified(scope, name) ELSE scope
        Cat[i \in 0..Len(n.children)] ==
            IF i = 0 THEN <<>> ELSE Cat[i - 1] \o NestedNames(n.children[i], inner)
    IN  (IF is_def THEN <<inner>> ELSE <<>>) \o Cat[Len(n.children)]

\* C14: the ids of the symbols of one parse with a grammar are pairwise
\* distinct whenever the definitions differ in name or in nesting.
C14_SymbolIdsDistinct ==
    \A d \in PyDoneCalls :
        Distinct(NestedNames(d.args.inp.tree, PathOrMemory(d.args.inp.path))) =>
            Distinct([i \in 1..Len(d.result.symbols) |-> d.result.symbols[i].id])

\* the scopes the pending returns of walk() will pop, the next one first
PendingPops(c) ==
    LET leaves == SelectSeq(c.agenda, LAMBDA f : f.op \in {"leave_function", "leave_class"})
    IN  [i \in 1..Len(leaves) |-> leaves[i].pushed]

\* C15: during the walk the scope stack is never empty and has the file
\* scope at its bottom; the scopes above it are exactly those still to be
\* popped, the most recently pushed first; when the walk has finished the
\* stack holds the file scope alone.
C15_ScopeStackLIFO ==
    ps.call.running =>
        LET c == ps.call.c
        IN  /\ c.scope_stack # <<>>
            /\ c.scope_stack[1] = PathOrMemory(c.inp.path)
            /\ Tail(c.scope_stack) = Reverse(PendingPops(c))
            /\ c.agenda = <<>> => c.scope_stack = <<PathOrMemory(c.inp.path)>>

\* A walk over nested definitions three scopes deep has finished
C15_Witness ==
    /\ ps.call.running
    /\ StmtNestedClass \in Range(ps.call.c.inp.tree.children)
    /\ ps.call.c.agenda = <<>>
    /\ Len(ps.call.c.symbols) >= 3
    /\ ps.call.c.scope_stack = <<PathOrMemory(ps.call.c.inp.path)>>

\* the next step of the walk enters a function or class definition with a name
EnteringDefinition ==
    /\ ps.call.running /\ ps.call.c.agenda # <<>>
    /\ Head(ps.call.c.agenda).op = "walk"
    /\ LET n == NodeAt(ps.call.c.inp.tree, Head(ps.call.c.agenda).at)
       IN  /\ n.type \in {"function_definition", "class_definition"}
           /\ FirstChildText(n, {"identifier"}) # <<>>

\* C16: entering a function or class definition named n while the top of the
\* scope stack is s pushes s::n.
C16_PushedScope ==
    [][EnteringDefinition =>
          LET c == ps.call.c
              n == NodeAt(c.inp.tree, Head(c.agenda).at)
              name == FirstChildText(n, {"identifier"})
          IN  ps'.call.c.scope_stack =
                  Append(c.scope_stack, Qualified(Last(c.scope_stack), name))]_vars

\* C17: the names of the methods declared in a class are recorded under the
\* class, and a method declared again under a class id that already has a
\* method of that name gets an OVERRIDES relation with the later method's id
\* as its source.
C17_MethodsRecorded ==
    ps.call.running =>
        LET c == ps.call.c
            Methods(K) == { k \in 1..Len(c.symbols) :
                              /\ c.symbols[k].type = "function"
                              /\ c.symbols[k].id = Qualified(K, c.symbols[k].name) }
        IN  \A K \in DOMAIN c.class_methods :
                /\ \A k \in Methods(K) : c.symbols[k].name \in c.class_methods[K]
                /\ \A a, b \in Methods(K) :
                       (a < b /\ c.symbols[a].name = c.symbols[b].name) =>
                           \E i \in 1..Len(c.relations) :
                               /\ c.relations[i].type = "OVERRIDES"
                               /\ c.relations[i].source = c.symbols[b].id

----------------------------------------------------------------------------
(* The declared ontologies *)

PythonNodeTypes == {"function", "class", "module"}
JavaScriptNodeTypes == {"function", "class", "module"}
PHPNodeTypes == {"function", "class"}
CNodeTypes == {"function", "struct"}
RustNodeTypes == {"function", "struct", "enum", "trait"}
BashNodeTypes == {"function", "variable", "script"}
VueNodeTypes == {"component"}

\* get_ontology().node_types of the extractor class
get_ontology(parser) ==
    CASE parser = "python" -> PythonNodeTypes
      [] parser = "javascript" -> JavaScriptNodeTypes
      [] parser = "php" -> PHPNodeTypes
      [] parser = "c" -> CNodeTypes
      [] parser = "rust" -> RustNodeTypes
      [] parser = "bash" -> BashNodeTypes
      [] parser = "vue" -> VueNodeTypes

\* C18: every symbol a parse call returns has a type that is among the node
\* types of the ontology its extractor declares.
C18_SymbolTypesInOntology ==
    \A d \in DoneCalls :
        \A k \in 1..Len(d.result.symbols) :
            d.result.symbols[k].type \in get_ontology(d.args.parser)

\* C19: two parse calls of one extractor with the same content, path and
\* grammar availability return the same list of symbols and the same list
\* of relations.
C19_SameCallSameResult ==
    \A d, e \in DoneCalls :
        d.args = e.args =>
            /\ d.result.symbols = e.result.symbols
            /\ d.result.relations = e.result.relations

\* C20: a parse call made without a grammar bound returns at least one
\* diagnostic of level "warning".
C20_FallbackWarns ==
    \A d \in DoneCalls :
        ~d.args.engine =>
            \E k \in 1..Len(d.result.diagnostics) : d.result.diagnostics[k].level = "warning"

----------------------------------------------------------------------------
(* Edge weighting (edge_weights.py, edge_metrics.py): numbers *)

\* A float is kept as a whole number of ten-thousandths: 1.0 is Unit
Unit == 10000

\* math.log at the whole numbers the counts of the model give, in ten-thousandths
LogTable ==
    <<0, 6931, 10986, 13863, 16094, 17918, 19459, 20794, 21972, 23026, 23979, 24849,
      25649, 26391, 27081, 27726, 28332, 28904, 29444, 29957, 30445, 30910, 31355,
      31781, 32189, 32581, 32958, 33322, 33673, 34012, 34340, 34657, 34965, 35264,
      35553, 35835, 36109, 36376, 36636, 36889, 37136, 37377, 37612, 37842, 38067,
      38286, 38501, 38712, 38918, 39120, 39318, 39512, 39703, 39890, 40073, 40254,
      40431, 40604, 40775, 40943, 41109, 41271, 41431, 41589>>
\* math.log(n)
Log(n) == LogTable[n]
\* math.log(a / b) for whole numbers a, b > 0
LogRatio(a, b) == Log(a) - Log(b)
\* math.log1p(n)
Log1p(n) == Log(n + 1)
\* x / y and x * y on floats
FDiv(x, y) == (x * Unit) \div y
FMul(x, y) == (x * y) \div Unit
Min(a, b) == IF a <= b THEN a ELSE b
Max(a, b) == IF a >= b THEN a ELSE b
RECURSIVE MaxOf(_)
MaxOf(S) == IF S = {} THEN 0 ELSE LET x == CHOOSE y \in S : TRUE IN Max(x, MaxOf(S \ {x}))

\* sum(counter.values())
RECURSIVE SumValues(_)
SumValues(m) ==
    IF DOMAIN m = {} THEN 0
    ELSE LET k == CHOOSE x \in DOMAIN m : TRUE
         IN  m[k] + SumValues([x \in DOMAIN m \ {k} |-> m[x]])

\* counter[key] += 1
Incr(m, k) == Put(m, k, Get(m, k) + 1)

----------------------------------------------------------------------------
(* EdgeWeightComputer (edge_weights.py) *)

\* __init__
EdgeWeightComputer(smoothing) ==
    [smoothing |-> smoothing, edge_type_counts |-> <<>>, total_edges |-> 0, weights |-> <<>>]

\* lines 45-48: the edge types are counted; a relation without a type is passed over
RECURSIVE CountTypes(_, _, _)
CountTypes(counts, relations, i) ==
    IF i > Len(relations) THEN counts
    ELSE LET edge_type == relations[i].type
         IN  CountTypes(IF edge_type # "" THEN Incr(counts, edge_type) ELSE counts,
                        relations, i + 1)

fit_direct(self, relations) ==
    LET counts == CountTypes(self.edge_type_counts, relations, 1)
        total == SumValues(counts)
    IN  [self EXCEPT !.edge_type_counts = counts, !.total_edges = total,
                     !.weights = [t \in DOMAIN counts |-> FDiv(counts[t], total)]]
\* EdgeWeightComputer.fit
fit(self, relations) ==
    LET counts == CountTypes(self.edge_type_counts, relations, 1)
        total == SumValues(counts)
        counted == [self EXCEPT !.edge_type_counts = counts, !.total_edges = total]
        raw_weights == [t \in DOMAIN counts |->
                           LogRatio(total + self.smoothing, counts[t] + self.smoothing)]
        max_weight == MaxOf({ raw_weights[t] : t \in DOMAIN counts })
    IN  IF total = 0 THEN counted
        ELSE IF max_weight > 0
        THEN [counted EXCEPT !.weights = [t \in DOMAIN counts |->
                                              FDiv(raw_weights[t], max_weight)]]
        ELSE [counted EXCEPT !.weights = [t \in DOMAIN counts |-> Unit]]

\* EdgeWeightComputer.get_weight
get_weight(self, edge_type) ==
    IF edge_type \in DOMAIN self.weights THEN self.weights[edge_type] ELSE Unit

\* EdgeWeightComputer.get_frequency
get_frequency(self, edge_type) ==
    IF self.total_edges = 0 THEN 0
    ELSE FDiv(Get(self.edge_type_counts, edge_type), self.total_edges)

\* rel_copy[key] = value for each key of `more`, on a copy of rel
With(rel, more) ==
    [k \in DOMAIN rel \cup DOMAIN more |-> IF k \in DOMAIN more THEN more[k] ELSE rel[k]]

\* What a call of enrich_edges leaves: the caller's list, and the list returned
Enriched(relations, out) == [relations |-> relations, enriched |-> out]

enrich_edges_in_place(self, relations) ==
    LET out == [i \in 1..Len(relations) |->
                   With(relations[i], [weight |-> Unit, frequency |-> 0])]
    IN  Enriched(out, out)
\* EdgeWeightComputer.enrich_edges
enrich_edges(self, relations) ==
    LET Of(rel) ==
            IF rel.type # ""
            THEN With(rel, [weight |-> get_weight(self, rel.type),
                            frequency |-> get_frequency(self, rel.type)])
            ELSE With(rel, [weight |-> Unit, frequency |-> 0])
    IN  Enriched(relations, [i \in 1..Len(relations) |-> Of(relations[i])])

\* SoftmaxEdgeWeightComputer.__init__; the temperature is in ten-thousandths
SoftmaxEdgeWeightComputer(temperature, smoothing) ==
    [smoothing |-> smoothing, edge_type_counts |-> <<>>, total_edges |-> 0,
     weights |-> <<>>, temperature |-> temperature]

\* the largest k with k * k <= n
RECURSIVE SqrtBetween(_, _, _)
SqrtBetween(n, lo, hi) ==
    IF lo >= hi THEN lo
    ELSE LET mid == (lo + hi + 1) \div 2
         IN  IF mid * mid <= n THEN SqrtBetween(n, mid, hi)
             ELSE SqrtBetween(n, lo, mid - 1)
Sqrt(n) == SqrtBetween(n, 0, 46340)

\* math.exp(math.log(a / b) / temperature), for the temperatures 0.5, 1.0 and
\* 2.0: the square of a / b, a / b itself, and its square root
ExpLogOver(a, b, temperature) ==
    CASE temperature = Unit \div 2 -> FDiv(a * a, b * b)
      [] temperature = Unit -> FDiv(a, b)
      [] temperature = 2 * Unit -> Sqrt(FDiv(a, b) * Unit)

\* x / y for values beyond the range in which x * Unit fits 32 bits
FDivWide(x, y) ==
    IF x <= 200000 THEN FDiv(x, y) ELSE (x * 100) \div (y \div 100)

\* SoftmaxEdgeWeightComputer.fit
softmax_fit(self, relations) ==
    LET fitted == fit(self, relations)
        exp_values == [t \in DOMAIN fitted.edge_type_counts |->
                          ExpLogOver(fitted.total_edges + fitted.smoothing,
                                     fitted.edge_type_counts[t] + fitted.smoothing,
                                     fitted.temperature)]
        sum_exp == SumValues(exp_values)
        softmax == [t \in DOMAIN exp_values |-> FDivWide(exp_values[t], sum_exp)]
        max_weight == MaxOf({ softmax[t] : t \in DOMAIN softmax })
    IN  IF fitted.total_edges = 0 THEN fitted
        ELSE IF sum_exp > 0
             THEN IF max_weight > 0
                  THEN [fitted EXCEPT !.weights =
                           [t \in DOMAIN softmax |-> FDiv(softmax[t], max_weight)]]
                  ELSE [fitted EXCEPT !.weights = softmax]
        ELSE fitted

\* compute_edge_weights
compute_edge_weights(relations, method, temperature, smoothing) ==
    IF method = "softmax"
    THEN softmax_fit(SoftmaxEdgeWeightComputer(temperature, smoothing), relations)
    ELSE fit(EdgeWeightComputer(smoothing), relations)

----------------------------------------------------------------------------
(* MultiMetricEdgeWeighting (edge_metrics.py) *)

\* __init__
MultiMetricEdgeWeighting ==
    [edge_counts |-> <<>>, total_edges |-> 0,
     node_in_degree |-> <<>>, node_out_degree |-> <<>>, node_types |-> <<>>,
     execution_edges |-> {}, structural_edges |-> {}, data_flow_edges |-> {},
     metrics |-> <<>>]

\* lines 62 and 91: the relation is passed over
Skipped(rel) == rel.type = "" \/ rel.source = <<>>

\* lines 57-78: one iteration of pass 1
CountRelation(self, rel) ==
    IF Skipped(rel) THEN self
    ELSE [self EXCEPT
            !.edge_counts = Incr(@, rel.type),
            !.total_edges = @ + 1,
            !.node_out_degree = Incr(@, rel.source),
            !.node_in_degree = IF rel.target # <<>> THEN Incr(@, rel.target) ELSE @,
            !.execution_edges =
                IF rel.type \in {"CALLS", "ASYNC_AWAITS", "INSTANTIATES", "RAISES", "CATCHES"}
                THEN @ \cup {rel.type} ELSE @,
            !.structural_edges =
                IF rel.type \in {"EXTENDS", "IMPLEMENTS", "DECORATES", "IMPORTS"}
                THEN @ \cup {rel.type} ELSE @,
            !.data_flow_edges =
                IF rel.type \in {"DEFINES", "USES", "READS", "WRITES", "RETURNS", "YIELDS"}
                THEN @ \cup {rel.type} ELSE @]

\* lines 81-83
StoreNodeTypes(self, syms) ==
    LET Store[i \in 0..Len(syms)] ==
            IF i = 0 THEN self.node_types
            ELSE Put(Store[i - 1],
                     IF "id" \in DOMAIN syms[i] /\ syms[i].id # <<>> THEN syms[i].id
                     ELSE syms[i].name,
                     syms[i].type)
    IN  [self EXCEPT !.node_types = Store[Len(syms)]]

\* _compute_structural_weight
_compute_structural_weight(self, edge_type) ==
    IF self.total_edges = 0 THEN Unit
    ELSE LET count == Get(self.edge_counts, edge_type)
             weight == LogRatio(self.total_edges + 1, count + 1)
             max_weight == Log(self.total_edges + 1)
         IN  IF count = 0 THEN Unit
             ELSE IF max_weight > 0 THEN FDiv(weight, max_weight) ELSE Unit

\* _compute_functional_weight
_compute_functional_weight(edge_type, source, target) ==
    CASE edge_type \in {"CALLS", "ASYNC_AWAITS", "YIELDS", "RETURNS"} -> Unit
      [] edge_type \in {"RAISES", "CATCHES"} -> 9500
      [] edge_type \in {"DEFINES", "WRITES", "INSTANTIATES"} -> 8000
      [] edge_type \in {"USES", "READS"} -> 7000
      [] edge_type = "WITH_CONTEXT" -> 6500
      [] edge_type \in {"OVERRIDES", "DECORATES"} -> 5000
      [] edge_type \in {"EXTENDS", "IMPLEMENTS", "IMPORTS"} -> 2000
      [] OTHER -> 5000

\* _compute_centrality_weight
_compute_centrality_weight(self, source, target) ==
    LET Degree(n) == Get(self.node_out_degree, n) + Get(self.node_in_degree, n)
        source_centrality == FDiv(Log1p(Degree(source)), Log1p(50))
        target_centrality ==
            IF target # <<>> THEN FDiv(Log1p(Degree(target)), Log1p(50)) ELSE 0
        combined == (source_centrality + target_centrality) \div 2
    IN  Min(Unit, combined)

\* str.count("::")
RECURSIVE CountScopes(_)
CountScopes(s) ==
    IF Len(s) < 2 THEN 0
    ELSE IF s[1] = ":" /\ s[2] = ":" THEN 1 + CountScopes(SubSeq(s, 3, Len(s)))
    ELSE CountScopes(Tail(s))

\* _compute_depth_weight
_compute_depth_weight(source, target) ==
    LET source_depth == IF source # <<>> THEN CountScopes(source) ELSE 0
        target_depth == IF target # <<>> THEN CountScopes(target) ELSE 0
        max_depth == Max(source_depth, target_depth)
    IN  Min(Unit, (max_depth * Unit) \div 5)

\* the key of self.metrics
EdgeKey(rel) == <<rel.source, rel.type, rel.target>>

\* lines 86-113: one iteration of pass 2
MeasureRelation(self, rel) ==
    IF Skipped(rel) THEN self
    ELSE [self EXCEPT !.metrics =
            Put(@, EdgeKey(rel),
                [structural |-> _compute_structural_weight(self, rel.type),
                 functional |-> _compute_functional_weight(rel.type, rel.source, rel.target),
                 centrality |-> _compute_centrality_weight(self, rel.source, rel.target),
                 depth |-> _compute_depth_weight(rel.source, rel.target)])]

\* `for rel in relations: self = Step(self, rel)`
RECURSIVE ForEach(_, _, _, _)
ForEach(Step(_, _), self, relations, i) ==
    IF i > Len(relations) THEN self
    ELSE ForEach(Step, Step(self, relations[i]), relations, i + 1)

\* MultiMetricEdgeWeighting.fit
metrics_fit(self, syms, relations) ==
    ForEach(MeasureRelation,
            StoreNodeTypes(ForEach(CountRelation, self, relations, 1), syms),
            relations, 1)

\* The dimension weights a caller passes: None, or a dict
NoWeights == [given |-> FALSE]
Weights(d) == [given |-> TRUE, d |-> d]
DefaultWeights ==
    [structural |-> 2000, functional |-> 5000, centrality |-> 2000, depth |-> 1000]

\* sum(metrics[dim] * weight for dim, weight in weights.items() if dim in metrics)
RECURSIVE WeightedSum(_, _, _)
WeightedSum(metrics, d, dims) ==
    IF dims = {} THEN 0
    ELSE LET dim == CHOOSE x \in dims : TRUE
         IN  (IF dim \in DOMAIN metrics THEN FMul(metrics[dim], d[dim]) ELSE 0)
                 + WeightedSum(metrics, d, dims \ {dim})

\* get_combined_weight
get_combined_weight(self, source, edge_type, target, weights) ==
    LET d == IF weights.given THEN weights.d ELSE DefaultWeights
        key == <<source, edge_type, target>>
    IN  IF key \notin DOMAIN self.metrics THEN 5000
        ELSE Min(Unit, WeightedSum(self.metrics[key], d, DOMAIN d))

_get_importance_level_inclusive(weight) ==
    IF weight >= 7500 THEN "CRITICAL"
    ELSE IF weight >= 6000 THEN "HIGH"
    ELSE IF weight >= 4000 THEN "MEDIUM"
    ELSE "LOW"
\* _get_importance_level
_get_importance_level(weight) ==
    IF weight > 7500 THEN "CRITICAL"
    ELSE IF weight > 6000 THEN "HIGH"
    ELSE IF weight > 4000 THEN "MEDIUM"
    ELSE "LOW"

\* MultiMetricEdgeWeighting.enrich_edges
metrics_enrich_edges(self, relations, dimension_weights) ==
    LET Of(rel) ==
            IF Skipped(rel) THEN rel
            ELSE LET known == EdgeKey(rel) \in DOMAIN self.metrics
                     m == IF known THEN self.metrics[EdgeKey(rel)]
                          ELSE [structural |-> 5000, functional |-> 5000,
                                centrality |-> 5000, depth |-> 5000]
                     weight == get_combined_weight(self, rel.source, rel.type, rel.target,
                                                   dimension_weights)
                 IN  With(rel, [structural_weight |-> m.structural,
                                functional_weight |-> m.functional,
                                centrality_weight |-> m.centrality,
                                depth_weight |-> m.depth,
                                weight |-> weight,
                                importance_level |-> _get_importance_level(weight)])
    IN  Enriched(relations, [i \in 1..Len(relations) |-> Of(relations[i])])

\* compute_multi_metrics
compute_multi_metrics(syms, relations) ==
    metrics_fit(MultiMetricEdgeWeighting, syms, relations)

----------------------------------------------------------------------------
(* The weighting pipeline of example_weighted_analysis.py over relation lists *)

MaxRels == 3

Relation(type, source, target) == [type |-> type, source |-> source, target |-> target]

\* A relation without a type has type "", one without a source or target has <<>>
RelationKinds ==
    { Relation("CALLS", <<"a", ":", ":", "f">>, <<"b", ":", ":", "g">>),
      Relation("CALLS", <<"a", ":", ":", "f">>, <<"a", ":", ":", "f">>),
      Relation("EXTENDS", <<"C">>, <<"B">>),
      Relation("IMPORTS", <<"m">>, <<>>),
      Relation("", <<"a", ":", ":", "f">>, <<"C">>),
      Relation("USES", <<>>, <<"x">>),
      Relation("DEFINES", <<"p", ":", ":", "q", ":", ":", "r", ":", ":", "s", ":", ":", "t", ":", ":", "u">>, <<"p", ":", ":", "q", ":", ":", "r", ":", ":", "s", ":", ":", "t", ":", ":", "u", ":", ":", "v">>),
      Relation("FOLLOWS", <<"C">>, <<"m">>) }

\* CALLS 8, EXTENDS 1, IMPORTS 1
SkewedRelations ==
    [i \in 1..8 |-> Relation("CALLS", <<"a", ":", ":", "f">>, <<"b", ":", ":", "g">>)]
        \o <<Relation("EXTENDS", <<"C">>, <<"B">>), Relation("IMPORTS", <<"m">>, <<>>)>>

RelationLists == SeqsUpTo(RelationKinds, MaxRels) \cup {SkewedRelations}

\* whole-numbered smoothing parameters; 1 is the default
Smoothings == {0, 1, 2}

\* method: 'inverse_frequency' (the default) or 'softmax'; any other name is
\* taken as the default
Methods == {"inverse_frequency", "softmax", "other"}

Temperatures == {Unit \div 2, Unit, 2 * Unit}

WeightSymbols ==
    << [id |-> <<"a", ":", ":", "f">>, name |-> <<"f">>, type |-> "Function"],
       [id |-> <<>>, name |-> <<"C">>, type |-> "Class"] >>

DimensionWeights ==
    { NoWeights,
      Weights([structural |-> Unit, functional |-> Unit, centrality |-> Unit, depth |-> Unit]),
      Weights([structural |-> Unit]),
      Weights([functional |-> 0 - Unit]),
      Weights([novelty |-> Unit]),
      Weights(<<>>) }

WeightGrid == {0 - 1, 0, 3999, 4000, 4001, 5999, 6000, 6001, 7499, 7500, 7501, Unit, Unit + 1}

\* the orchestrator is not running
TreeIdle ==
    /\ fs = <<>> /\ pc = "idle" /\ todo = <<>> /\ nodes = <<>> /\ edges = <<>>
    /\ node_ids = <<>> /\ symbols = <<>> /\ total_items = 0 /\ processed_items = 0
    /\ last_percent = -1 /\ next_id = 0 /\ pushed = <<>> /\ requests = <<>>
    /\ all_nodes = <<>> /\ all_edges = <<>> /\ fails = 0 /\ pending_full = FALSE

WInit ==
    /\ \E relations \in RelationLists :
         ws = [step |-> "new", given |-> relations, relations |-> relations,
               computer |-> <<>>, enriched |-> <<>>,
               weighting |-> <<>>, dimension_weights |-> NoWeights, measured |-> <<>>,
               weight |-> 0, level |-> ""]
    /\ TreeIdle
    /\ rs = <<>> /\ ps = <<>> /\ wk = <<>> /\ prior = <<>>

\* compute_edge_weights(relations, method, temperature, smoothing)
ComputeEdgeWeights ==
    /\ ws.step = "new"
    /\ \E method \in Methods : \E temperature \in Temperatures : \E smoothing \in Smoothings :
         ws' = [ws EXCEPT !.step = "fitted",
                          !.computer = compute_edge_weights(ws.relations, method,
                                                            temperature, smoothing)]
    /\ UNCHANGED <<tvars, rs, ps, wk, prior>>

\* weight_computer.enrich_edges(relations)
EnrichEdges ==
    /\ ws.step = "fitted"
    /\ LET call == enrich_edges(ws.computer, ws.relations)
       IN  ws' = [ws EXCEPT !.step = "enriched", !.relations = call.relations,
                            !.enriched = call.enriched]
    /\ UNCHANGED <<tvars, rs, ps, wk, prior>>

\* compute_multi_metrics(symbols, relations)
ComputeMultiMetrics ==
    /\ ws.step = "enriched"
    /\ ws' = [ws EXCEPT !.step = "measured",
                        !.weighting = compute_multi_metrics(WeightSymbols, ws.relations)]
    /\ UNCHANGED <<tvars, rs, ps, wk, prior>>

\* weighting.enrich_edges(relations, dimension_weights)
MetricsEnrichEdges ==
    /\ ws.step = "measured"
    /\ \E dimension_weights \in DimensionWeights :
         LET call == metrics_enrich_edges(ws.weighting, ws.relations, dimension_weights)
         IN  ws' = [ws EXCEPT !.step = "done", !.relations = call.relations,
                              !.dimension_weights = dimension_weights,
                              !.measured = call.enriched]
    /\ UNCHANGED <<tvars, rs, ps, wk, prior>>

\* _get_importance_level(weight) on its own
Classify ==
    /\ ws.step = "new"
    /\ \E weight \in WeightGrid :
         ws' = [ws EXCEPT !.step = "classified", !.weight = weight,
                          !.level = _get_importance_level(weight)]
    /\ UNCHANGED <<tvars, rs, ps, wk, prior>>

WNext ==
    \/ ComputeEdgeWeights
    \/ EnrichEdges
    \/ ComputeMultiMetrics
    \/ MetricsEnrichEdges
    \/ Classify

SpecWeights == WInit /\ [][WNext]_vars

----------------------------------------------------------------------------
(* Properties of the weighting models *)

\* number of relations of a list that carry the edge type
CountOf(relations, edge_type) ==
    Cardinality({ i \in 1..Len(relations) : relations[i].type = edge_type })

EdgeTypeNames ==
    { "CALLS", "EXTENDS", "IMPORTS", "USES", "DEFINES", "FOLLOWS", "OVERRIDES" }

Fitted == ws.step \in {"fitted", "enriched", "measured", "done"}

\* C21: after fit on a relation set, an edge type that occurs less often than
\* another has a weight at least as high, and for CALLS 8, EXTENDS 1, IMPORTS 1
\* the weights of EXTENDS and IMPORTS are strictly higher than that of CALLS.
C21_RarerTypeWeighsMore ==
    Fitted =>
        /\ \A A \in EdgeTypeNames : \A B \in EdgeTypeNames :
             CountOf(ws.given, A) < CountOf(ws.given, B)
                 => get_weight(ws.computer, A) >= get_weight(ws.computer, B)
        /\ ws.given = SkewedRelations
             => /\ get_weight(ws.computer, "EXTENDS") > get_weight(ws.computer, "CALLS")
                /\ get_weight(ws.computer, "IMPORTS") > get_weight(ws.computer, "CALLS")

C21_Witness ==
    /\ ws.step = "fitted"
    /\ "temperature" \notin DOMAIN ws.computer
    /\ ws.given = SkewedRelations
    /\ ws.computer.edge_type_counts["CALLS"] = 8
    /\ get_weight(ws.computer, "EXTENDS") = Unit
    /\ get_weight(ws.computer, "CALLS") < Unit

Annotated(rel) == "weight" \in DOMAIN rel

InUnitRange(x) == 0 <= x /\ x <= Unit

\* C22: for every edge of a fitted relation set the structural, functional,
\* centrality and depth values and the combined weight lie within [0,1],
\* whatever dimension weights the caller supplies.
C22_WeightsWithinUnitRange ==
    ws.step = "done" =>
        \A i \in 1..Len(ws.measured) :
            Skipped(ws.given[i]) \/
                /\ InUnitRange(ws.measured[i].structural_weight)
                /\ InUnitRange(ws.measured[i].functional_weight)
                /\ InUnitRange(ws.measured[i].centrality_weight)
                /\ InUnitRange(ws.measured[i].depth_weight)
                /\ InUnitRange(ws.measured[i].weight)
                /\ InUnitRange(get_combined_weight(ws.weighting, ws.given[i].source,
                                   ws.given[i].type, ws.given[i].target,
                                   ws.dimension_weights))

\* C23: _get_importance_level gives every weight exactly one label, with strict
\* thresholds: CRITICAL iff w > 0.75, HIGH iff 0.6 < w <= 0.75, MEDIUM iff
\* 0.4 < w <= 0.6, LOW iff w <= 0.4.
C23_LevelThresholds ==
    ws.step = "classified" =>
        /\ ws.level \in {"CRITICAL", "HIGH", "MEDIUM", "LOW"}
        /\ ws.level = "CRITICAL" <=> ws.weight > 7500
        /\ ws.level = "HIGH" <=> (6000 < ws.weight /\ ws.weight <= 7500)
        /\ ws.level = "MEDIUM" <=> (4000 < ws.weight /\ ws.weight <= 6000)
        /\ ws.level = "LOW" <=> ws.weight <= 4000

C23_Witness ==
    /\ ws.step = "classified"
    /\ ws.weight = 7500
    /\ ws.level = "HIGH"

\* C24: when every relation has a type and a source, the structural dimension
\* of an edge equals the weight EdgeWeightComputer with smoothing 1 gives the
\* edge's type on the same relation set.
C24_StructuralEqualsInverseFrequency ==
    ( /\ ws.step = "done"
      /\ ws.computer.smoothing = 1 /\ "temperature" \notin DOMAIN ws.computer
      /\ \A i \in 1..Len(ws.given) : ~Skipped(ws.given[i]) )
    => \A i \in 1..Len(ws.measured) :
           ws.measured[i].structural_weight = get_weight(ws.computer, ws.given[i].type)

SameEnds(a, b) == a.type = b.type /\ a.source = b.source /\ a.target = b.target

\* C25: enrich_edges of both models returns a list of the input's length and
\* order whose entries keep type, source and target, and leaves every input
\* relation as it was.
C25_EnrichCopies ==
    /\ ws.step \in {"enriched", "measured", "done"} =>
         /\ Len(ws.enriched) = Len(ws.given)
         /\ \A i \in 1..Len(ws.given) : SameEnds(ws.enriched[i], ws.given[i])
         /\ ws.relations = ws.given
    /\ ws.step = "done" =>
         /\ Len(ws.measured) = Len(ws.given)
         /\ \A i \in 1..Len(ws.given) : SameEnds(ws.measured[i], ws.given[i])
         /\ ws.relations = ws.given

C25_Witness ==
    /\ ws.step = "done"
    /\ Len(ws.given) = 3
    /\ ws.given[1] # ws.given[2]
    /\ Annotated(ws.enriched[1]) /\ Annotated(ws.measured[1])
    /\ "importance_level" \in DOMAIN ws.measured[2]
    /\ ~Annotated(ws.given[1])

----------------------------------------------------------------------------
(* Several analysis requests for one project (app.py) *)

MaxAnalyses == 2
MaxRunFiles == 1

\* The TreeParser whose thread takes the next step
ThisRun ==
    [pc |-> pc, todo |-> todo, nodes |-> nodes, edges |-> edges, node_ids |-> node_ids,
     symbols |-> symbols, total_items |-> total_items,
     processed_items |-> processed_items, last_percent |-> last_percent,
     pushed |-> pushed, requests |-> requests, all_nodes |-> all_nodes,
     all_edges |-> all_edges, fails |-> fails, pending_full |-> pending_full]

\* TreeParser.__init__
NewParser ==
    [pc |-> "count", todo |-> <<>>, nodes |-> <<>>, edges |-> <<>>, node_ids |-> <<>>,
     symbols |-> <<>>, total_items |-> 0, processed_items |-> 0, last_percent |-> -1,
     pushed |-> <<>>, requests |-> <<>>, all_nodes |-> <<>>, all_edges |-> <<>>,
     fails |-> 0, pending_full |-> FALSE]

\* the thread of run r is the one that takes the next step
Resume(r) ==
    /\ pc' = r.pc /\ todo' = r.todo /\ nodes' = r.nodes /\ edges' = r.edges
    /\ node_ids' = r.node_ids /\ symbols' = r.symbols /\ total_items' = r.total_items
    /\ processed_items' = r.processed_items /\ last_percent' = r.last_percent
    /\ pushed' = r.pushed /\ requests' = r.requests /\ all_nodes' = r.all_nodes
    /\ all_edges' = r.all_edges /\ fails' = r.fails /\ pending_full' = r.pending_full

\* start_tree_analysis: the request starts a thread with a TreeParser of its
\* own and returns; earlier runs may be under way or ended.  The uuid4 values
\* a run draws are new ones whichever run draws them.
NewRun ==
    /\ Len(prior) + 1 < MaxAnalyses
    /\ prior' = Append(prior, ThisRun)
    /\ Resume(NewParser)
    /\ UNCHANGED <<fs, next_id, rs, ps, ws, wk>>

\* the scheduler passes from the thread of one run to that of another, which
\* goes on from where it was: between two iterations or inside one, at a
\* wait or before a uuid4()
SwitchRun ==
    /\ \E i \in 1..Len(prior) :
         /\ prior[i].pc # "done" \/ pc # "done"
         /\ prior' = [prior EXCEPT ![i] = ThisRun]
         /\ Resume(prior[i])
    /\ UNCHANGED <<fs, next_id, rs, ps, ws, wk>>

RunsNext ==
    \/ Next
    \/ NewRun
    \/ SwitchRun

\* the projects analysed more than once: those with at most MaxRunFiles files
\* directly under the root, no .git directory, and a sub-directory only when
\* the root holds no file
RunTrees ==
    { t \in Trees :
        Root \in DOMAIN t =>
            /\ Len(t[Root].files) <= MaxRunFiles
            /\ GitPath \notin DOMAIN t
            /\ SubPath \in DOMAIN t => t[Root].files = <<>> }

RunsInit == Init /\ fs \in RunTrees

SpecRuns == RunsInit /\ [][RunsNext]_vars

\* C26: two analysis runs over the same unchanged project, one after the
\* other or overlapping, give the Folder or File node of a path the same id.
C26_SamePathSameId ==
    \A r \in 1..Len(prior) :
        \A path \in DOMAIN prior[r].node_ids \cap DOMAIN node_ids :
            prior[r].node_ids[path] = node_ids[path]

\* ids of the nodes in the first k bulk requests
SentNodeIds(k) == UNION { Ids(requests[j].nodes) : j \in 1..k }

\* C29: for every edge in a bulk request, the nodes with its source_id and its
\* target_id are in the same request or in an earlier one of the run.
C29_EndpointsSentFirst ==
    \A k \in 1..Len(requests) :
        \A i \in 1..Len(requests[k].edges) :
            /\ requests[k].edges[i].source_id \in SentNodeIds(k)
            /\ requests[k].edges[i].target_id \in SentNodeIds(k)

\* C30: processed_items never exceeds total_items, and every percent value
\* pushed to the progress channel lies between 0 and 100.
C30_PercentWithinRange ==
    /\ pc # "count" => processed_items <= total_items
    /\ \A i \in 1..Len(pushed) : 0 <= pushed[i] /\ pushed[i] <= 100

\* C27: a later invocation of resolve_calls on the same CallResolver, over the
\* same tree and index, sends exactly the edges resolved in that invocation,
\* the same set as the first invocation, with nothing carried over.
C27_NothingCarriedOver ==
    \A r \in 2..rs.runs :
        rs.resolved[1] > 0 =>
            \A i \in RequestsOfRun(r) : \A j \in RequestsOfRun(1) :
                /\ Len(rs.requests[i].edges) = rs.resolved[r]
                /\ rs.requests[i].edges = rs.requests[j].edges

----------------------------------------------------------------------------
(* WebSocketServer (websocket_server.py) *)

MaxClients == 2
\* api_server calls whose frames are not all sent yet, plus the finished ones kept
MaxInFlight == 2

Clients == 1..MaxClients

\* the key the server was started with, and the keys a peer may present
API_KEY == "key"
Keys == {"key", "other"}

\* JSON values of the "percent" member
JsonInt(v) == [kind |-> "int", v |-> v]
JsonStr(v) == [kind |-> "str", v |-> v]
JsonNull == [kind |-> "null", v |-> 0]
Absent == [kind |-> "absent", v |-> 0]
PercentValues == {JsonInt(0), JsonInt(50), JsonInt(100), JsonStr(50), JsonNull}

\* int(x): raises for None
Raises(x) == x.kind = "null"
int(x) == x.v

\* the lines a backend service may write to the push port
ProgressLines == { [api_key |-> k, percent |-> p, a |-> FALSE] : k \in Keys, p \in PercentValues }
MessageLines == { [api_key |-> k, percent |-> Absent, a |-> TRUE] : k \in Keys }
OtherLines == { [api_key |-> API_KEY, percent |-> Absent, a |-> FALSE] }
Lines == ProgressLines \cup MessageLines \cup OtherLines

\* __init__; calls holds the api_server calls under way and the last finished
WebSocketServer ==
    [connected_clients |-> {}, progress_state |-> 0,
     closing |-> {}, refused |-> {}, calls |-> <<>>]

\* the clients with ws.open
Open(self) == self.connected_clients \ self.closing

\* A call of api_server at its first suspension or its end: the line, the
\* subscribers open at that moment, the frame, the clients whose send has not
\* run yet, those the frame has reached, and whether a send has raised
Call(self, line, to, frame) ==
    [line |-> line, subscribers |-> Open(self), frame |-> frame,
     todo |-> to, got |-> {}, raised |-> FALSE]

\* every send of the call has run
Finished(call) == call.todo = {}

\* room for a new call: the oldest finished call is forgotten when needed
Kept(calls) ==
    IF Len(calls) < MaxInFlight THEN calls
    ELSE LET done == { i \in 1..Len(calls) : Finished(calls[i]) }
         IN  IF done = {} THEN calls
             ELSE LET first == CHOOSE i \in done : \A j \in done : i <= j
                  IN  SubSeq(calls, 1, first - 1) \o SubSeq(calls, first + 1, Len(calls))

Handled(self, line, to, frame) ==
    [self EXCEPT !.calls = Append(Kept(@), Call(self, line, to, frame))]

\* broadcast_progress, up to `await asyncio.gather(...)`
broadcast_progress(self, line, percent) ==
    IF percent # self.progress_state
    THEN Handled([self EXCEPT !.progress_state = percent], line,
                 Open(self), [percent |-> percent])
    ELSE Handled(self, line, {}, <<>>)

\* broadcast_message, up to `await asyncio.gather(...)`
broadcast_message(self, line) ==
    Handled(self, line, Open(self), [a |-> "action"])

\* api_server, from the line read up to the first suspension or the end
api_server(self, line) ==
    IF line.api_key # API_KEY THEN Handled(self, line, {}, <<>>)
    ELSE IF line.percent.kind # "absent"
         THEN IF Raises(line.percent) THEN Handled(self, line, {}, <<>>)
              ELSE broadcast_progress(self, line, int(line.percent))
    ELSE IF line.a THEN broadcast_message(self, line)
    ELSE Handled(self, line, {}, <<>>)

\* ws.send(message) of call i for client c runs: the frame reaches an open
\* connection, a closed one raises
send(self, i, c) ==
    IF c \in Open(self)
    THEN [self EXCEPT !.calls[i].todo = @ \ {c}, !.calls[i].got = @ \cup {c}]
    ELSE [self EXCEPT !.calls[i].todo = @ \ {c}, !.calls[i].raised = TRUE]

\* the connections a send is still waiting for
Awaited(self) == UNION { self.calls[i].todo : i \in 1..Len(self.calls) }

KInit ==
    /\ wk = WebSocketServer
    /\ TreeIdle
    /\ rs = <<>> /\ ps = <<>> /\ ws = <<>> /\ prior = <<>>

\* handler, up to the loop over the client's messages; a new connection is
\* another object than one a send is waiting for
Handshake ==
    /\ \E c \in Clients \ (wk.connected_clients \cup Awaited(wk)) : \E api_key \in Keys :
         wk' = IF api_key # API_KEY
               THEN [wk EXCEPT !.refused = @ \cup {c}]
               ELSE [wk EXCEPT !.connected_clients = @ \cup {c}]
    /\ UNCHANGED <<tvars, rs, ps, ws, prior>>

\* the client's connection starts closing: ws.open is False from here on
ClientCloses ==
    /\ \E c \in Open(wk) : wk' = [wk EXCEPT !.closing = @ \cup {c}]
    /\ UNCHANGED <<tvars, rs, ps, ws, prior>>

\* handler, the finally clause
HandlerEnds ==
    /\ \E c \in wk.closing :
         wk' = [wk EXCEPT !.closing = @ \ {c}, !.connected_clients = @ \ {c}]
    /\ UNCHANGED <<tvars, rs, ps, ws, prior>>

\* a line arrives on the push port and api_server runs until it first waits
ApiServer ==
    /\ Len(Kept(wk.calls)) < MaxInFlight
    /\ \E line \in Lines : wk' = api_server(wk, line)
    /\ UNCHANGED <<tvars, rs, ps, ws, prior>>

\* one of the sends gathered by a call runs
Send ==
    /\ \E i \in 1..Len(wk.calls) : \E c \in wk.calls[i].todo : wk' = send(wk, i, c)
    /\ UNCHANGED <<tvars, rs, ps, ws, prior>>

KNext ==
    \/ Handshake
    \/ ClientCloses
    \/ HandlerEnds
    \/ ApiServer
    \/ Send

SpecWebSocket == KInit /\ [][KNext]_vars

\* C28: every progress line with the correct api_key is broadcast to all
\* subscribers connected at that moment, whatever percent values came before.
C28_ProgressBroadcast ==
    \A i \in 1..Len(wk.calls) :
        ( /\ Finished(wk.calls[i])
          /\ wk.calls[i].line.api_key = API_KEY
          /\ wk.calls[i].line.percent.kind \in {"int", "str"} )
        => /\ wk.calls[i].got = wk.calls[i].subscribers
           /\ wk.calls[i].subscribers # {}
                 => wk.calls[i].frame = [percent |-> int(wk.calls[i].line.percent)]

====
